---- MODULE Spec2Model ----
(***************************************************************************)
(* Assembly line balancing (pybalance): the precedence graph of a Line,    *)
(* the priority-rule heuristics (LCR, HB), the COMSOAL sequence builder,   *)
(* the station packing pass, the local-search operator and the genetic     *)
(* search with its region-based crossover and mutation.                    *)
(***************************************************************************)
EXTENDS Integers, Sequences, FiniteSets, TLC

\* ------------------------------------------------------------------ bounds
MaxTasks == 4
MaxDur == 2
MaxCycle == 3
MaxGATasks == 3
PopSize == 3
MaxGen == 1
MaxOut == 2
MaxOrders == 2
RngMod == 16
MaxSeed == 1
MaxAmbient == 1
MaxRecorded == 3
MaxUTasks == 3
MaxIter == 2
MaxBuild == 3

\* ------------------------------------------------------- virtual graph nodes
SOURCE == 0
SINK == -1

\* seed=None: the generators are left as they are
NoSeed == -1

\* cycle_time=None: the cycle time is to be derived from the task list
NoCycle == -1

\* ------------------------------------------------------------ list helpers
Range(s) == {s[i] : i \in 1..Len(s)}

Contains(s, x) == \E i \in 1..Len(s) : s[i] = x

\* list.remove / dict key deletion: drop the (single) occurrence of x
Remove(s, x) == SelectSeq(s, LAMBDA y : y # x)

RECURSIVE SumSet(_, _)
SumSet(S, f) ==
    IF S = {} THEN 0
    ELSE LET x == CHOOSE y \in S : TRUE IN f[x] + SumSet(S \ {x}, f)

RECURSIVE SumIds(_)
SumIds(S) ==
    IF S = {} THEN 0
    ELSE LET x == CHOOSE y \in S : TRUE IN x + SumIds(S \ {x})

RECURSIVE Flatten(_)
Flatten(stations) ==
    IF stations = <<>> THEN <<>>
    ELSE Head(stations) \o Flatten(Tail(stations))

\* --------------------------------------------------------------- the graph
\* A DiGraph is its ordered adjacency: succ[u] lists u's successors in the
\* order the edges were inserted (the iteration order of graph.successors).
Nodes(n) == (-1)..n

add_edge(succ, u, v) ==
    IF Contains(succ[u], v) THEN succ ELSE [succ EXCEPT ![u] = Append(@, v)]

remove_edge(succ, u, v) == [succ EXCEPT ![u] = Remove(@, v)]

has_edge(succ, u, v) == Contains(succ[u], v)

\* graph.remove_edges_from(list(graph.edges(u))): every out-edge of u
remove_out_edges(succ, u) == [succ EXCEPT ![u] = <<>>]

predecessors(succ, t) == {u \in DOMAIN succ : Contains(succ[u], t)}

RECURSIVE add_edges_from(_, _, _)
add_edges_from(succ, us, v) ==
    IF us = {} THEN succ
    ELSE LET u == CHOOSE x \in us : \A y \in us : x <= y
         IN add_edges_from(add_edge(succ, u, v), us \ {u}, v)

number_of_edges(succ) ==
    LET len == [u \in DOMAIN succ |-> Len(succ[u])] IN SumSet(DOMAIN succ, len)

\* nodes reachable from `frontier` (nx.descendants, dfs_preorder_nodes)
RECURSIVE ReachFrom(_, _, _)
ReachFrom(succ, frontier, seen) ==
    IF frontier = {} THEN seen
    ELSE LET nxt == UNION {Range(succ[u]) : u \in frontier} \ seen
         IN ReachFrom(succ, nxt, seen \cup nxt)

dfs_preorder_nodes(succ, source) == ReachFrom(succ, {source}, {source})

descendants(succ, source) == dfs_preorder_nodes(succ, source) \ {source}

ancestors(succ, target) ==
    {u \in DOMAIN succ : u # target /\ target \in dfs_preorder_nodes(succ, u)}

\* ---------------------------------------------------------------- the Line
\* task_list[i] = [num, preds, time]: task number, predecessors, duration.
RECURSIVE AddTasks(_, _, _)
AddTasks(succ, tl, i) ==
    IF i > Len(tl) THEN succ
    ELSE LET task == tl[i]
             s1 == IF task.preds = {}
                   THEN add_edge(succ, SOURCE, task.num)
                   ELSE add_edges_from(succ, task.preds, task.num)
         IN AddTasks(s1, tl, i + 1)

AddSinkEdges(succ) ==
    [u \in DOMAIN succ |->
        IF u # SINK /\ succ[u] = <<>> THEN <<SINK>> ELSE succ[u]]

draw_graph(tl) ==
    LET n == Len(tl)
        empty == [u \in Nodes(n) |-> <<>>]
        succ == AddSinkEdges(AddTasks(empty, tl, 1))
        time == [u \in Nodes(n) |-> IF u \in 1..n THEN tl[u].time ELSE 0]
    IN [succ |-> succ,
        time |-> time,
        total_weight |->
            [u \in 0..n |->
                IF u = SOURCE THEN 0
                ELSE SumSet(dfs_preorder_nodes(succ, u), time)]]

create_input_dict(tl) == [i \in 1..Len(tl) |-> tl[i].time]

Line(tl) ==
    [task_list |-> tl,
     graph |-> draw_graph(tl),
     input_dictionary |-> create_input_dict(tl)]

\* sum(task_times.get(task_num, 0) for task_num in station)
RECURSIVE get_station_time(_, _)
get_station_time(station, task_times) ==
    IF station = <<>> THEN 0
    ELSE (IF Head(station) \in DOMAIN task_times THEN task_times[Head(station)] ELSE 0)
           + get_station_time(Tail(station), task_times)

\* ------------------------------------------------------------------- state
VARIABLES
    line,             \* the Line under balancing (canonical graph, durations)
    cycle_time,
    method,           \* "lcr" | "hb"
    pc,               \* position in the running entry point
    graph,            \* the working copy's adjacency (copy.deepcopy(line.graph))
    station_list,
    current_station,
    parent1_seq,      \* chromosomes: task sequences
    parent2_seq,
    child1_seq,
    child2_seq,
    selected_region,
    local_search,     \* "heuristic" | "local" | "genetics"
    size,             \* population size
    population,       \* station lists
    new_population,
    best_solutions,
    gen,              \* generations completed
    ret,              \* what the entry point returned
    generation,       \* configuration of genetic_algorithms
    out,
    p_c,              \* probabilities in units of 1 / RngMod
    p_m,
    seed,
    py_state,         \* state of Python's global random generator
    np_state,         \* state of numpy's global np.random generator
    ambient,          \* the two generator states the current call started from
    call,             \* 1, 2: which of two successive calls is running
    first_call,       \* what the first call started from and returned
    task_sides,       \* u_type: the side label of each assigned task
    first,            \* u_type_balance: the first selection is still to be swapped
    iteration,        \* u_type_comsoal: the number of restarts asked for
    restart,          \* restarts completed
    best_solution,
    best_efficiency,
    best_sides,
    task_sequence,    \* comsoal_algorithm: the sequence of the running restart
    generation_list,  \* comsoal_algorithm: the station lists gathered so far
    drawn_k           \* mutation_local: the station index k it drew (1-based)

lineVars == <<line, cycle_time, method>>

heurVars == <<graph, station_list, current_station>>

seqVars == <<parent1_seq, parent2_seq, child1_seq, child2_seq, selected_region>>

gaVars == <<local_search, size, population, new_population, best_solutions, gen, ret>>

cfgVars == <<generation, out, p_c, p_m, seed>>

rngVars == <<py_state, np_state, ambient, call, first_call>>

uVars == <<task_sides, first, iteration, restart, best_solution, best_efficiency,
           best_sides>>

comsoalVars == <<task_sequence, generation_list>>

localVars == <<drawn_k>>

vars == <<line, cycle_time, method, pc, graph, station_list, current_station,
          parent1_seq, parent2_seq, child1_seq, child2_seq, selected_region,
          local_search, size, population, new_population, best_solutions, gen, ret,
          generation, out, p_c, p_m, seed, py_state, np_state, ambient, call,
          first_call, task_sides, first, iteration, restart, best_solution,
          best_efficiency, best_sides, task_sequence, generation_list, drawn_k>>

\* no generator is read: single call, generators untouched
RngIdle ==
    /\ seed = NoSeed
    /\ py_state = 0 /\ np_state = 0 /\ ambient = <<0, 0>>
    /\ call = 1 /\ first_call = <<>>

\* best_efficiency = -1.0, as the exact pair (s, d) of an efficiency
\* 100 - 100 * sqrt(s) / d
MinusOne == [s |-> 10201, d |-> 100]

\* no U-shaped balancing is running
UIdle ==
    /\ task_sides = <<>> /\ first = TRUE
    /\ iteration = 0 /\ restart = 0
    /\ best_solution = <<>> /\ best_efficiency = MinusOne /\ best_sides = <<>>

\* no comsoal_algorithm is running
ComsoalIdle == task_sequence = <<>> /\ generation_list = <<>>

\* no mutation_local has drawn a station
LocalIdle == drawn_k = 0

\* entry points other than genetic_algorithms take no such configuration
GAIdle == generation = 0 /\ out = 0 /\ p_c = 0 /\ p_m = 0 /\ RngIdle

\* ------------------------------------------------------------------ inputs
\* Task lists with identifiers 1..n in list order; a task's predecessors are
\* earlier tasks (none: the task hangs off the start node).
RECURSIVE TaskListsOf(_, _)
TaskListsOf(n, durs) ==
    IF n = 0 THEN {<<>>}
    ELSE {Append(tl, [num |-> n, preds |-> P, time |-> d]) :
            tl \in TaskListsOf(n - 1, durs), P \in SUBSET (1..(n - 1)), d \in durs}

TaskLists == UNION {TaskListsOf(n, 1..MaxDur) : n \in 1..MaxTasks}

\* a task list followed by one closing task that waits for every task that
\* has no successor
WithClosingTask(tl) ==
    LET n == Len(tl)
        last == {t \in 1..n : \A u \in 1..n : t \notin tl[u].preds}
    IN Append(tl, [num |-> n + 1, preds |-> last, time |-> 1])

\* the documented example: [[1, [0], 2], [2, [1], 5], [3, [1], 4], [4, [2, 3], 3]]
ExampleTasks ==
    << [num |-> 1, preds |-> {0}, time |-> 2],
       [num |-> 2, preds |-> {1}, time |-> 5],
       [num |-> 3, preds |-> {1}, time |-> 4],
       [num |-> 4, preds |-> {2, 3}, time |-> 3] >>

ExampleCycle == 6

Inputs ==
    {[tl |-> tl, ct |-> ct] : tl \in TaskLists, ct \in 1..MaxCycle}
        \cup {[tl |-> ExampleTasks, ct |-> ExampleCycle]}

\* ------------------------------------------------------ heuristic_method
RECURSIVE InsertDesc(_, _, _)
InsertDesc(sorted, x, key) ==
    IF sorted = <<>> THEN <<x>>
    ELSE IF key[Head(sorted)] >= key[x]
         THEN <<Head(sorted)>> \o InsertDesc(Tail(sorted), x, key)
         ELSE <<x>> \o sorted

\* the items left in the order they came in
Unsorted(s, key) == s

\* sorted(items, key=..., reverse=True): descending, ties in original order
RECURSIVE SortDesc(_, _)
SortDesc(s, key) ==
    IF s = <<>> THEN <<>>
    ELSE InsertDesc(SortDesc(SubSeq(s, 1, Len(s) - 1), key), s[Len(s)], key)

find_weighed_successor(ln, tasks) ==
    SortDesc(tasks, ln.graph.total_weight)

find_number_successor(ln, tasks) ==
    LET cnt == [u \in Range(tasks) |->
                  Cardinality(dfs_preorder_nodes(ln.graph.succ, u))]
    IN SortDesc(tasks, cnt)

IsFeasibleBySourceEdge(succ, task) == task # SINK

IsFeasible(succ, task) == SumIds(predecessors(succ, task)) = 0 /\ task # SINK

feasible_tasks(succ) ==
    SelectSeq(succ[SOURCE], LAMBDA task : IsFeasible(succ, task))

candidate_list(ln, succ, m) ==
    IF m = "lcr" THEN find_weighed_successor(ln, feasible_tasks(succ))
    ELSE find_number_successor(ln, feasible_tasks(succ))

FitsAlone(ln, station, task, ct) == ln.graph.time[task] <= ct

FitsStrictly(ln, station, task, ct) ==
    get_station_time(station, ln.input_dictionary) + ln.graph.time[task] < ct

Fits(ln, station, task, ct) ==
    get_station_time(station, ln.input_dictionary) + ln.graph.time[task] <= ct

\* connect the start node to the task's successors, then drop the task's edges
Retire(succ, task) ==
    LET RECURSIVE Rewire(_, _)
        Rewire(g, i) ==
            IF i > Len(succ[task]) THEN g
            ELSE Rewire(add_edge(g, SOURCE, succ[task][i]), i + 1)
    IN remove_edge(remove_out_edges(Rewire(succ, 1), task), SOURCE, task)

IsFinishedSinkReached(succ) == has_edge(succ, SOURCE, SINK)

IsFinished(succ) == number_of_edges(succ) = 1

HeuristicInit ==
    /\ \E inp \in Inputs : line = Line(inp.tl) /\ cycle_time = inp.ct
    /\ method \in {"lcr", "hb"}
    /\ pc = "heuristic"
    /\ graph = line.graph.succ
    /\ station_list = <<>>
    /\ current_station = <<>>
    /\ parent1_seq = <<>> /\ parent2_seq = <<>>
    /\ child1_seq = <<>> /\ child2_seq = <<>>
    /\ selected_region = {}
    /\ local_search = "heuristic" /\ size = 0
    /\ population = <<>> /\ new_population = <<>> /\ best_solutions = <<>>
    /\ gen = 0 /\ ret = <<>>
    /\ GAIdle
    /\ UIdle
    /\ ComsoalIdle /\ LocalIdle

\* one loop iteration in which some candidate fits the open station
HeuristicAdd ==
    /\ pc = "heuristic"
    /\ LET cl == candidate_list(line, graph, method)
           fit == {i \in 1..Len(cl) : Fits(line, current_station, cl[i], cycle_time)}
       IN /\ fit # {}
          /\ LET i == CHOOSE j \in fit : \A k \in fit : j <= k
                 g1 == Retire(graph, cl[i])
                 st == Append(current_station, cl[i])
             IN /\ graph' = g1
                /\ current_station' = st
                /\ IF IsFinished(g1)
                   THEN /\ station_list' = Append(station_list, st)
                        /\ pc' = "returned"
                   ELSE UNCHANGED <<station_list, pc>>
    /\ UNCHANGED <<lineVars, cfgVars, localVars, comsoalVars, uVars, rngVars, seqVars, gaVars>>

\* one loop iteration in which no candidate fits: a new station is opened
HeuristicNewStation ==
    /\ pc = "heuristic"
    /\ LET cl == candidate_list(line, graph, method)
           fit == {i \in 1..Len(cl) : Fits(line, current_station, cl[i], cycle_time)}
       IN /\ fit = {}
          /\ IF cl = <<>>
             THEN \* candidate_list[0] raises IndexError
                  /\ pc' = "IndexError"
                  /\ UNCHANGED <<graph, station_list, current_station>>
             ELSE LET g1 == Retire(graph, cl[1])
                      sl == IF current_station # <<>>
                            THEN Append(station_list, current_station)
                            ELSE station_list
                  IN /\ graph' = g1
                     /\ current_station' = <<cl[1]>>
                     /\ IF IsFinished(g1)
                        THEN /\ station_list' = Append(sl, <<cl[1]>>)
                             /\ pc' = "returned"
                        ELSE /\ station_list' = sl
                             /\ UNCHANGED pc
    /\ UNCHANGED <<lineVars, cfgVars, localVars, comsoalVars, uVars, rngVars, seqVars, gaVars>>

HeuristicNext == HeuristicAdd \/ HeuristicNewStation

HeuristicSpec == HeuristicInit /\ [][HeuristicNext]_vars

\* ------------------------------------------- genetic operators (genetic.py)
\* neighbours in graph.to_undirected()
Neighbours(succ, u) == Range(succ[u]) \cup predecessors(succ, u)

RECURSIVE ReachUndirected(_, _, _, _)
ReachUndirected(succ, allowed, frontier, seen) ==
    IF frontier = {} THEN seen
    ELSE LET nxt == (UNION {Neighbours(succ, u) : u \in frontier} \cap allowed) \ seen
         IN ReachUndirected(succ, allowed, nxt, seen \cup nxt)

\* v is a cut vertex: its component, without v, is no longer connected
IsCutVertex(succ, v) ==
    LET nb == Neighbours(succ, v) \ {v}
        all == DOMAIN succ
    IN /\ nb # {}
       /\ LET a == CHOOSE x \in nb : TRUE
              comp == ReachUndirected(succ, all, {v}, {v}) \ {v}
          IN ReachUndirected(succ, all \ {v}, {a}, {a}) # comp

RECURSIVE SortedSeq(_)
SortedSeq(S) ==
    IF S = {} THEN <<>>
    ELSE LET m == CHOOSE x \in S : \A y \in S : x <= y
         IN <<m>> \o SortedSeq(S \ {m})

find_articulation_points(succ) ==
    SortedSeq({v \in DOMAIN succ : IsCutVertex(succ, v) /\ v \notin {SOURCE, SINK}})

\* direct successors and predecessors in place of descendants and ancestors
RegionOfNeighbours(succ, start, end) ==
    ((Range(succ[start]) \cap predecessors(succ, end)) \cup {start, end})
        \ {SOURCE, SINK}

RegionBetween(succ, start, end) ==
    ((descendants(succ, start) \cap ancestors(succ, end)) \cup {start, end})
        \ {SOURCE, SINK}

find_regions(succ, aps) ==
    IF Len(aps) < 2
    THEN LET all_nodes == DOMAIN succ \ {SOURCE, SINK}
         IN IF all_nodes # {} THEN <<all_nodes>> ELSE <<>>
    ELSE LET cand == [i \in 1..(Len(aps) - 1) |-> RegionBetween(succ, aps[i], aps[i + 1])]
         IN SelectSeq(cand, LAMBDA r : Cardinality(r) > 2)

\* [gene for gene in parent if gene in region]
RegionGenes(parent, region) == SelectSeq(parent, LAMBDA gene : gene \in region)

\* child = parent[:] with the i-th region slot taking the other parent's
\* i-th region gene
ReplaceRegion(parent, other, region) ==
    LET genes == RegionGenes(other, region)
        rank(k) == Cardinality({j \in 1..k : parent[j] \in region})
    IN [k \in 1..Len(parent) |->
          IF parent[k] \in region /\ rank(k) <= Len(genes)
          THEN genes[rank(k)] ELSE parent[k]]

\* the (child1, child2, region) outcomes of the crossover once the regions
\* of the line's graph are known
CrossoverIn(parent1, parent2, regions) ==
    IF regions = <<>>
    THEN {[child1 |-> parent1, child2 |-> parent2, region |-> {}]}
    ELSE {[child1 |-> ReplaceRegion(parent1, parent2, r),
           child2 |-> ReplaceRegion(parent2, parent1, r),
           region |-> r] : r \in Range(regions)}

precedence_preserving_crossover(parent1, parent2, ln) ==
    CrossoverIn(parent1, parent2,
        find_regions(ln.graph.succ, find_articulation_points(ln.graph.succ)))

IndexOf(seq, x) == CHOOSE i \in 1..Len(seq) : seq[i] = x

\* a move that pops the gene and never inserts it again
MoveGeneLosingIt(chromosome, current_pos, new_pos) ==
    SubSeq(chromosome, 1, current_pos - 1)
        \o SubSeq(chromosome, current_pos + 1, Len(chromosome))

\* mutated.pop(current_pos); mutated.insert(new_pos, gene)  (1-based here)
MoveGene(chromosome, current_pos, new_pos) ==
    LET popped == SubSeq(chromosome, 1, current_pos - 1)
                    \o SubSeq(chromosome, current_pos + 1, Len(chromosome))
    IN SubSeq(popped, 1, new_pos - 1) \o <<chromosome[current_pos]>>
         \o SubSeq(popped, new_pos, Len(popped))

\* the new positions region_based_mutation draws from
MutationTargets(chromosome, region) ==
    {i \in 1..Len(chromosome) : chromosome[i] \in region}

\* the outcomes of the mutation over its random choices once the
\* articulation points and regions of the line's graph are known
MutationIn(chromosome, aps, regions) ==
    IF regions = <<>> THEN {chromosome}
    ELSE UNION {
            LET non_articulation == r \ Range(aps)
            IN IF Cardinality(non_articulation) < 2 THEN {chromosome}
               ELSE UNION {
                    LET current_pos == IndexOf(chromosome, gene)
                        region_positions == MutationTargets(chromosome, r)
                    IN IF Cardinality(region_positions) < 2 THEN {chromosome}
                       ELSE {IF new_pos = current_pos THEN chromosome
                             ELSE MoveGene(chromosome, current_pos, new_pos) :
                                new_pos \in region_positions}
                    : gene \in non_articulation}
            : r \in Range(regions)}

region_based_mutation(chromosome, ln) ==
    LET aps == find_articulation_points(ln.graph.succ)
    IN MutationIn(chromosome, aps, find_regions(ln.graph.succ, aps))

PrecedenceEdgesOf(ln) ==
    LET ids == 1..Len(ln.task_list)
    IN {<<p, t>> \in ids \X ids : has_edge(ln.graph.succ, p, t)}

IsTopologicalIn(ln, seq) ==
    \A e \in PrecedenceEdgesOf(ln) :
        \A j \in 1..Len(seq) : seq[j] = e[2] =>
            \E i \in 1..(j - 1) : seq[i] = e[1]

TaskPermutations(n) ==
    {s \in [1..n -> 1..n] : \A i, j \in 1..n : s[i] = s[j] => i = j}

TopologicalOrders(ln) ==
    {s \in TaskPermutations(Len(ln.task_list)) : IsTopologicalIn(ln, s)}

OperatorsInit ==
    /\ \E n \in 1..MaxTasks : \E tl \in TaskListsOf(n, {1}) :
          line \in {Line(tl), Line(WithClosingTask(tl))}
    /\ cycle_time = MaxCycle
    /\ method = "lcr"
    /\ pc = "operators"
    /\ graph = line.graph.succ
    /\ station_list = <<>>
    /\ current_station = <<>>
    /\ parent1_seq \in TopologicalOrders(line)
    /\ parent2_seq \in TopologicalOrders(line)
    /\ child1_seq = <<>> /\ child2_seq = <<>>
    /\ selected_region = {}
    /\ local_search = "heuristic" /\ size = 0
    /\ population = <<>> /\ new_population = <<>> /\ best_solutions = <<>>
    /\ gen = 0 /\ ret = <<>>
    /\ GAIdle
    /\ UIdle
    /\ ComsoalIdle /\ LocalIdle

Crossover ==
    /\ pc = "operators"
    /\ \E crossed \in precedence_preserving_crossover(parent1_seq, parent2_seq, line) :
          /\ child1_seq' = crossed.child1
          /\ child2_seq' = crossed.child2
          /\ selected_region' = crossed.region
    /\ pc' = "crossed"
    /\ UNCHANGED <<lineVars, cfgVars, localVars, comsoalVars, uVars, rngVars, heurVars, gaVars, parent1_seq, parent2_seq>>

Mutation ==
    /\ pc = "operators"
    /\ child1_seq' \in region_based_mutation(parent1_seq, line)
    /\ pc' = "mutated"
    /\ UNCHANGED <<lineVars, cfgVars, localVars, comsoalVars, uVars, rngVars, heurVars, gaVars, parent1_seq, parent2_seq, child2_seq,
                   selected_region>>

OperatorsNext == Crossover \/ Mutation

OperatorsSpec == OperatorsInit /\ [][OperatorsNext]_vars

\* ------------------------------------------------------ metrics (efficiency.py)
\* the smallest element instead of the largest
MinOf(S) == CHOOSE x \in S : \A y \in S : x <= y

MaxOf(S) == CHOOSE x \in S : \A y \in S : y <= x

station_times(stations, task_times) ==
    [i \in 1..Len(stations) |-> get_station_time(stations[i], task_times)]

\* squared deviations from the total work time instead of the largest
\* station time
SquaredDeviationsFromTotal(stations, task_times) ==
    LET st == station_times(stations, task_times)
        total == SumSet(1..Len(st), st)
        sq == [i \in 1..Len(st) |-> (total - st[i]) * (total - st[i])]
    IN SumSet(1..Len(st), sq)

\* the square of calculate_smooth_index: sum of (max_station_time - st)^2
SmoothIndexSquared(stations, task_times) ==
    LET st == station_times(stations, task_times)
        mx == MaxOf(Range(st))
        sq == [i \in 1..Len(st) |-> (mx - st[i]) * (mx - st[i])]
    IN SumSet(1..Len(st), sq)

\* line efficiency = 100 - 100 * sqrt(s) / d with s the squared smoothness
\* index and d = num_stations * cycle_time (cycle_time 0: the largest
\* station time); kept as the exact pair (s, d)
calculate_line_efficiency(stations, task_times, ct) ==
    LET st == station_times(stations, task_times)
        c == IF ct = 0 THEN MaxOf(Range(st)) ELSE ct
    IN [s |-> SmoothIndexSquared(stations, task_times), d |-> Len(st) * c]

\* e1 >= e2 for efficiencies kept as (s, d):  sqrt(s1)/d1 <= sqrt(s2)/d2
EffGE(e1, e2) == e1.s * e2.d * e2.d <= e2.s * e1.d * e1.d

EffGT(e1, e2) == ~EffGE(e2, e1)

\* list.sort(key=efficiency, reverse=True): descending, stable; effs[i] is
\* the efficiency of the i-th item and the result lists the items' indices
RECURSIVE InsertByEff(_, _, _)
InsertByEff(sorted, i, effs) ==
    IF sorted = <<>> THEN <<i>>
    ELSE IF EffGE(effs[Head(sorted)], effs[i])
         THEN <<Head(sorted)>> \o InsertByEff(Tail(sorted), i, effs)
         ELSE <<i>> \o sorted

RECURSIVE SortIndexByEff(_, _)
SortIndexByEff(n, effs) ==
    IF n = 0 THEN <<>>
    ELSE InsertByEff(SortIndexByEff(n - 1, effs), n, effs)

SortByEff(solutions, task_times, ct) ==
    LET effs == [i \in 1..Len(solutions) |->
                   calculate_line_efficiency(solutions[i], task_times, ct)]
        order == SortIndexByEff(Len(solutions), effs)
    IN [k \in 1..Len(solutions) |-> solutions[order[k]]]

\* ------------------------------------------------- station packing (comsoal.py)
\* a test that only asks whether the task fits an empty station
StationHasRoomWhenEmpty(ln, current, task, ct) == ln.input_dictionary[task] <= ct

\* line.get_station_time(current_station) + task_time <= cycle_time
StationHasRoom(ln, current, task, ct) ==
    get_station_time(current, ln.input_dictionary) + ln.input_dictionary[task] <= ct

RECURSIVE Allocate(_, _, _, _, _, _)
Allocate(ln, sequence, ct, i, stations, current) ==
    IF i > Len(sequence)
    THEN IF current # <<>> THEN Append(stations, current) ELSE stations
    ELSE LET task == sequence[i]
         IN IF StationHasRoom(ln, current, task, ct)
            THEN Allocate(ln, sequence, ct, i + 1, stations, Append(current, task))
            ELSE Allocate(ln, sequence, ct, i + 1, Append(stations, current), <<task>>)

heuristic_task_allocating(ln, sequence, ct) ==
    Allocate(ln, sequence, ct, 1, <<>>, <<>>)

\* ------------------------------------------------ local search (local_search.py)
\* the move that would put the task at the end of the next station
MoveLastBehindNext(stations, i) ==
    LET s0 == IF Len(stations) <= i THEN Append(stations, <<>>) ELSE stations
        last == s0[i][Len(s0[i])]
    IN [s0 EXCEPT ![i] = SubSeq(@, 1, Len(@) - 1), ![i + 1] = Append(@, last)]

\* stations[i + 1].insert(0, stations[i][-1]); stations[i].pop()
MoveLastToNext(stations, i) ==
    LET s0 == IF Len(stations) <= i THEN Append(stations, <<>>) ELSE stations
        last == s0[i][Len(s0[i])]
    IN [s0 EXCEPT ![i] = SubSeq(@, 1, Len(@) - 1), ![i + 1] = <<last>> \o @]

\* the while loop that empties station i until it is within the cycle time
RECURSIVE FixStation(_, _, _, _)
FixStation(ln, stations, i, ct) ==
    IF get_station_time(stations[i], ln.input_dictionary) > ct
    THEN FixStation(ln, MoveLastToNext(stations, i), i, ct)
    ELSE stations

\* for i in range(k, len(stations)): the range is fixed when the loop starts
RECURSIVE FixStations(_, _, _, _, _)
FixStations(ln, stations, i, last, ct) ==
    IF i > last THEN stations
    ELSE FixStations(ln, FixStation(ln, stations, i, ct), i + 1, last, ct)

\* mutation_local with the drawn station index k (1-based)
mutation_local(ln, stations, ct, k) ==
    LET moved == IF Len(stations[k]) > 1 THEN MoveLastToNext(stations, k) ELSE stations
    IN FixStations(ln, moved, k, Len(moved), ct)

Neighbours1(ln, stations, ct) ==
    {mutation_local(ln, stations, ct, k) : k \in 1..Len(stations)}

\* local_search_heuristic(...)[0]: the list of unique solutions starts with
\* the initial one
LocalSearchHeuristicFirst(ln, initial_list, ct) == initial_list

\* local_search_genetic(...)[0]: the best child of the first generation.
\* The population is the initial list plus 29 neighbours; a child is the
\* winner of a 3-way tournament (scored with cycle_time 0), mutated or not;
\* the best is the first child of highest score, the initial list at index 0.
LocalSearchGeneticFirst(ln, initial_list, ct) ==
    LET score(x) == calculate_line_efficiency(x, ln.input_dictionary, 0)
        nb == Neighbours1(ln, initial_list, ct)
        winners == nb \cup
            (IF \E m \in nb : EffGE(score(initial_list), score(m))
             THEN {initial_list} ELSE {})
        children == winners \cup UNION {Neighbours1(ln, w, ct) : w \in winners}
    IN {x \in children : EffGT(score(x), score(initial_list))}
         \cup (IF \E c \in children : EffGE(score(initial_list), score(c))
               THEN {initial_list} ELSE {})

\* local_search_procedure(line, stations, cycle_time, local_search, out=1)[0]
LocalSearchFirst(ln, stations, ct, mode) ==
    IF mode = "genetics" THEN LocalSearchGeneticFirst(ln, stations, ct)
    ELSE {LocalSearchHeuristicFirst(ln, stations, ct)}

\* ------------------------------------------------ genetic_algorithms (genetic.py)
\* the task sequences the random sequence builder can produce from a working
\* graph: one feasible task is drawn and retired per iteration
RECURSIVE RandomSequences(_)
RandomSequences(succ) ==
    LET feasible == feasible_tasks(succ)
    IN IF feasible = <<>> THEN {<<>>}
       ELSE UNION {
            LET g1 == Retire(succ, selected)
            IN IF g1[SOURCE] = <<SINK>> THEN {<<selected>>}
               ELSE {<<selected>> \o rest : rest \in RandomSequences(g1)}
            : selected \in Range(feasible)}

\* task lists of up to MaxGATasks tasks whose precedence graph admits at most
\* MaxOrders task sequences, balanced at the largest cycle time
GAInputs ==
    {[tl |-> tl, ct |-> MaxCycle] :
        tl \in {t \in UNION {TaskListsOf(n, 1..MaxDur) : n \in 1..MaxGATasks} :
                  Cardinality(RandomSequences(Line(t).graph.succ)) <= MaxOrders}}

GAInit ==
    /\ \E inp \in GAInputs : line = Line(inp.tl) /\ cycle_time = inp.ct
    /\ method = "lcr"
    /\ pc = "ga_start"
    /\ graph = line.graph.succ
    /\ station_list = <<>>
    /\ current_station = <<>>
    /\ parent1_seq = <<>> /\ parent2_seq = <<>>
    /\ child1_seq = <<>> /\ child2_seq = <<>>
    /\ selected_region = {}
    /\ local_search \in {"heuristic", "local", "genetics"}
    /\ size = PopSize
    /\ generation \in 1..MaxGen
    /\ out \in 1..MaxOut
    /\ p_c = RngMod \div 2 /\ p_m = RngMod \div 2
    /\ RngIdle
    /\ population = <<>> /\ new_population = <<>> /\ best_solutions = <<>>
    /\ gen = 0 /\ ret = <<>>
    /\ UIdle
    /\ ComsoalIdle /\ LocalIdle

\* the initial population: `size` random sequences, each packed into stations
GAInitialPopulation ==
    /\ pc = "ga_start"
    /\ \E initial_sequences \in [1..size -> RandomSequences(line.graph.succ)] :
          population' = [i \in 1..size |->
              heuristic_task_allocating(line, initial_sequences[i], cycle_time)]
    /\ pc' = "ga_evolve"
    /\ UNCHANGED <<lineVars, cfgVars, localVars, comsoalVars, uVars, rngVars, heurVars, seqVars, local_search, size, new_population,
                   best_solutions, gen, ret>>

\* the (parent1, parent2) pairs a 3-way tournament can select: the three
\* warriors come in drawn order, the sort by score is stable
TournamentParents ==
    LET n == Len(population)
        triples == {w \in [1..3 -> 1..n] : w[1] # w[2] /\ w[1] # w[3] /\ w[2] # w[3]}
    IN {LET warriors == [i \in 1..3 |-> population[w[i]]]
            sorted_warriors == SortByEff(warriors, line.input_dictionary, cycle_time)
        IN <<sorted_warriors[1], sorted_warriors[2]>> : w \in triples}

\* the union of old population and children left as it is
Unscored(all_solutions) == all_solutions

\* Elitism(all_solutions): the sorted union of old population and children
Elitism(all_solutions) == SortByEff(all_solutions, line.input_dictionary, cycle_time)

\* the station lists one child can become: mutated or not, packed, then
\* passed through the local search unless the mode is 'heuristic'
ChildStations(ln, child_seq, aps, regions, ct, mode) ==
    UNION {
        LET stations == heuristic_task_allocating(ln, seq, ct)
        IN IF mode # "heuristic" THEN LocalSearchFirst(ln, stations, ct, mode)
           ELSE {stations}
        : seq \in {child_seq} \cup MutationIn(child_seq, aps, regions)}

\* the (child1_stations, child2_stations) pairs one tournament can add
TournamentChildren ==
    LET aps == find_articulation_points(line.graph.succ)
        regions == find_regions(line.graph.succ, aps)
    IN UNION {
        LET parent1_s == Flatten(parents[1])
            parent2_s == Flatten(parents[2])
        IN UNION {
            ChildStations(line, crossed.child1, aps, regions, cycle_time, local_search)
              \X ChildStations(line, crossed.child2, aps, regions, cycle_time, local_search)
            : crossed \in {[child1 |-> parent1_s, child2 |-> parent2_s, region |-> {}]}
                            \cup CrossoverIn(parent1_s, parent2_s, regions)}
        : parents \in TournamentParents}

\* one tournament: selection, crossover, mutation, packing, local search; the
\* last tournament of a generation is followed by the elitism step.  The
\* children of a generation stay in new_population until the next one starts.
GATournament ==
    /\ pc = "ga_evolve"
    /\ gen < generation
    /\ \E children \in TournamentChildren :
          LET started == IF Len(new_population) = 2 * (size \div 2)
                         THEN <<>> ELSE new_population
              np == started \o <<children[1], children[2]>>
          IN /\ new_population' = np
             /\ IF Len(np) = 2 * (size \div 2)
                THEN LET scored == Elitism(population \o np)
                     IN /\ population' = SubSeq(scored, 1, size)
                        /\ best_solutions' = Append(best_solutions, scored[1])
                        /\ gen' = gen + 1
                ELSE UNCHANGED <<population, best_solutions, gen>>
    /\ UNCHANGED <<lineVars, cfgVars, localVars, comsoalVars, uVars, rngVars, heurVars, seqVars, pc, local_search, size, ret>>

\* a list kept with its repetitions
UniqueKeepingAll(s) == s

RECURSIVE Unique(_)
Unique(s) ==
    IF s = <<>> THEN <<>>
    ELSE LET init == Unique(SubSeq(s, 1, Len(s) - 1))
         IN IF Contains(init, s[Len(s)]) THEN init ELSE Append(init, s[Len(s)])

\* final_scored[:out] of the unique best solutions sorted by efficiency
Returned(ln, best, ct, count) ==
    LET final_scored == SortByEff(Unique(best), ln.input_dictionary, ct)
    IN SubSeq(final_scored, 1, IF count < Len(final_scored) THEN count
                               ELSE Len(final_scored))

\* after `generation` generations: unique best solutions, sorted by
\* efficiency, the first `out`
GAReturn ==
    /\ pc = "ga_evolve"
    /\ gen = generation
    /\ ret' = Returned(line, best_solutions, cycle_time, out)
    /\ pc' = "ga_returned"
    /\ UNCHANGED <<lineVars, cfgVars, localVars, comsoalVars, uVars, rngVars, heurVars, seqVars, local_search, size, population,
                   new_population, best_solutions, gen>>

GANext == GAInitialPopulation \/ GATournament \/ GAReturn

GASpec == GAInit /\ [][GANext]_vars

\* ------------------------------- the recorded bests (genetic.py 364-392)
\* A generation is kept as the best it records; the populations are not kept.
\* individuals a generation can hold: the packed topological orders and
\* their packed mutations
Individuals(ln, ct) ==
    LET aps == find_articulation_points(ln.graph.succ)
        regions == find_regions(ln.graph.succ, aps)
        orders == TopologicalOrders(ln)
    IN {heuristic_task_allocating(ln, seq, ct) :
          seq \in orders \cup UNION {MutationIn(o, aps, regions) : o \in orders}}

RecordInit ==
    /\ \E n \in 1..MaxGATasks : \E tl \in TaskListsOf(n, 1..MaxDur) : line = Line(tl)
    /\ cycle_time = MaxCycle
    /\ method = "lcr"
    /\ pc = "ga_evolve"
    /\ graph = line.graph.succ
    /\ station_list = <<>>
    /\ current_station = <<>>
    /\ parent1_seq = <<>> /\ parent2_seq = <<>>
    /\ child1_seq = <<>> /\ child2_seq = <<>>
    /\ selected_region = {}
    /\ local_search = "heuristic"
    /\ size = PopSize
    /\ generation \in 1..MaxRecorded
    /\ out \in 1..MaxOut
    /\ p_c = RngMod \div 2 /\ p_m = RngMod \div 2
    /\ RngIdle
    /\ population = <<>> /\ new_population = <<>> /\ best_solutions = <<>>
    /\ gen = 0 /\ ret = <<>>
    /\ UIdle
    /\ ComsoalIdle /\ LocalIdle

\* best_solutions.append(scored[0][0]): the elitism keeps the last best at
\* the head of the population and the sort is stable, so a generation
\* records the last best again or an individual of strictly higher efficiency
GARecordBest ==
    /\ pc = "ga_evolve"
    /\ gen < generation
    /\ \E b \in Individuals(line, cycle_time) :
          /\ IF best_solutions = <<>> THEN TRUE
             ELSE \/ b = best_solutions[Len(best_solutions)]
                  \/ EffGT(calculate_line_efficiency(b, line.input_dictionary, cycle_time),
                           calculate_line_efficiency(best_solutions[Len(best_solutions)],
                                                     line.input_dictionary, cycle_time))
          /\ best_solutions' = Append(best_solutions, b)
    /\ gen' = gen + 1
    /\ UNCHANGED <<lineVars, cfgVars, localVars, comsoalVars, uVars, rngVars, heurVars, seqVars, pc, local_search, size,
                   population, new_population, ret>>

RecordNext == GARecordBest \/ GAReturn

RecordSpec == RecordInit /\ [][RecordNext]_vars

\* ------------------------------------------ seeded runs (genetic.py, seed=...)
\* The two global generators are kept as a state in 0..RngMod-1 each; a draw
\* reads the state and steps it.  random.seed and np.random.seed set the
\* state from the seed alone.
py_step(x) == (5 * x + 3) % RngMod

np_step(x) == (13 * x + 7) % RngMod

random_seed(x, s) == (7 * s + 1) % RngMod

\* a seeding that leaves numpy's generator as it was
np_random_seed_skipped(x, s) == x

np_random_seed(x, s) == (3 * s + 2) % RngMod

\* the states of the pair of generators
RngStates == [py : 0..(RngMod - 1), np : 0..(RngMod - 1)]

\* the index (1-based) a generator state selects among n alternatives
Pick(x, n) == (x * n) \div RngMod + 1

\* local_search_heuristic / local_search_genetic defaults
LocalPopulation == 30
LocalGenerations == 15
LocalPmTenths == 7

\* np.argmax: the first index of a highest score
ArgMax(effs) ==
    CHOOSE i \in 1..Len(effs) :
        /\ \A j \in 1..Len(effs) : EffGE(effs[i], effs[j])
        /\ \A j \in 1..(i - 1) : ~EffGE(effs[j], effs[i])

\* one random feasible sequence, each task drawn with random.choice
RECURSIVE DrawnSequence(_, _)
DrawnSequence(succ, py) ==
    LET feasible == feasible_tasks(succ)
    IN IF feasible = <<>> THEN [seq |-> <<>>, py |-> py]
       ELSE LET selected == feasible[Pick(py, Len(feasible))]
                g1 == Retire(succ, selected)
            IN IF g1[SOURCE] = <<SINK>>
               THEN [seq |-> <<selected>>, py |-> py_step(py)]
               ELSE LET rest == DrawnSequence(g1, py_step(py))
                    IN [seq |-> <<selected>> \o rest.seq, py |-> rest.py]

\* for _ in range(size): the initial sequences, packed into stations
RECURSIVE DrawnPopulation(_, _, _, _)
DrawnPopulation(ln, ct, count, py) ==
    IF count = 0 THEN [list |-> <<>>, py |-> py]
    ELSE LET d == DrawnSequence(ln.graph.succ, py)
             rest == DrawnPopulation(ln, ct, count - 1, d.py)
         IN [list |-> <<heuristic_task_allocating(ln, d.seq, ct)>> \o rest.list,
             py |-> rest.py]

\* np.random.choice(n, size=3, replace=False): three draws, each among the
\* indices not drawn yet (in ascending order)
DrawnWarriors(n, np) ==
    LET i1 == Pick(np, n)
        np1 == np_step(np)
        j2 == Pick(np1, n - 1)
        i2 == IF j2 >= i1 THEN j2 + 1 ELSE j2
        np2 == np_step(np1)
        j3 == Pick(np2, n - 2)
        k3 == IF j3 >= (IF i1 < i2 THEN i1 ELSE i2) THEN j3 + 1 ELSE j3
        i3 == IF k3 >= (IF i1 < i2 THEN i2 ELSE i1) THEN k3 + 1 ELSE k3
    IN [idx |-> <<i1, i2, i3>>, np |-> np_step(np2)]

DrawnCrossover(parent1, parent2, regions, py) ==
    IF regions = <<>> THEN [child1 |-> parent1, child2 |-> parent2, py |-> py]
    ELSE LET r == regions[Pick(py, Len(regions))]
         IN [child1 |-> ReplaceRegion(parent1, parent2, r),
             child2 |-> ReplaceRegion(parent2, parent1, r),
             py |-> py_step(py)]

DrawnMutation(chromosome, aps, regions, py) ==
    IF regions = <<>> THEN [seq |-> chromosome, py |-> py]
    ELSE LET r == regions[Pick(py, Len(regions))]
             py1 == py_step(py)
             non_articulation == SortedSeq(r \ Range(aps))
         IN IF Len(non_articulation) < 2 THEN [seq |-> chromosome, py |-> py1]
            ELSE LET gene == non_articulation[Pick(py1, Len(non_articulation))]
                     py2 == py_step(py1)
                     current_pos == IndexOf(chromosome, gene)
                     region_positions == SortedSeq(MutationTargets(chromosome, r))
                 IN IF Len(region_positions) < 2 THEN [seq |-> chromosome, py |-> py2]
                    ELSE LET new_pos == region_positions[Pick(py2, Len(region_positions))]
                         IN [seq |-> IF new_pos = current_pos THEN chromosome
                                     ELSE MoveGene(chromosome, current_pos, new_pos),
                             py |-> py_step(py2)]

\* mutation_local with k = rd.randint(0, len(stations) - 1)
DrawnMutationLocal(ln, stations, ct, py) ==
    [stations |-> mutation_local(ln, stations, ct, Pick(py, Len(stations))),
     py |-> py_step(py)]

\* `count` neighbours of the initial list
RECURSIVE DrawnNeighbours(_, _, _, _, _)
DrawnNeighbours(ln, initial_list, ct, count, py) ==
    IF count = 0 THEN [list |-> <<>>, py |-> py]
    ELSE LET m == DrawnMutationLocal(ln, initial_list, ct, py)
             rest == DrawnNeighbours(ln, initial_list, ct, count - 1, m.py)
         IN [list |-> <<m.stations>> \o rest.list, py |-> rest.py]

\* local_search_heuristic(...)[0] and the generators it leaves
DrawnLocalSearchHeuristic(ln, initial_list, ct, rng) ==
    LET nb == DrawnNeighbours(ln, initial_list, ct, LocalPopulation - 1, rng.py)
    IN [first |-> initial_list, rng |-> [py |-> nb.py, np |-> rng.np]]

\* the generators after one child of local_search_genetic: the warriors and
\* the mutation test read numpy's, the mutation (if any) reads Python's
LocalChildRng(rng) ==
    LET w == DrawnWarriors(LocalPopulation, rng.np)
    IN [py |-> IF w.np * 10 < LocalPmTenths * RngMod THEN py_step(rng.py) ELSE rng.py,
        np |-> np_step(w.np)]

\* winner = warriors[np.argmax(scores)], scored with cycle_time 0
LocalWinner(ln, warriors) ==
    warriors[ArgMax([i \in 1..3 |->
        calculate_line_efficiency(warriors[i], ln.input_dictionary, 0)])]

\* if np.random.rand() < p_m: child = mutation_local(...) else child = winner
MutatedWinner(ln, winner, ct, mutate, py) ==
    IF mutate THEN DrawnMutationLocal(ln, winner, ct, py).stations ELSE winner

\* one child of local_search_genetic: 3-way tournament, winner mutated or not
DrawnLocalChild(ln, current_population, ct, rng) ==
    LET w == DrawnWarriors(Len(current_population), rng.np)
    IN [child |-> MutatedWinner(ln,
                      LocalWinner(ln, [i \in 1..3 |-> current_population[w.idx[i]]]),
                      ct, w.np * 10 < LocalPmTenths * RngMod, rng.py),
        rng |-> LocalChildRng(rng)]

RECURSIVE DrawnLocalChildren(_, _, _, _, _)
DrawnLocalChildren(ln, current_population, ct, count, rng) ==
    IF count = 0 THEN [list |-> <<>>, rng |-> rng]
    ELSE LET c == DrawnLocalChild(ln, current_population, ct, rng)
             rest == DrawnLocalChildren(ln, current_population, ct, count - 1, c.rng)
         IN [list |-> <<c.child>> \o rest.list, rng |-> rest.rng]

\* the generators after the `count` children of one generation
LocalRngAfter(count, rng) ==
    LET after[c \in 0..count, r \in RngStates] ==
            IF c = 0 THEN r ELSE after[c - 1, LocalChildRng(r)]
    IN after[count, rng]

\* the generators after `gens` further generations
LocalRngAfterGenerations(gens, rng) ==
    LET after[g \in 0..gens, r \in RngStates] ==
            IF g = 0 THEN r ELSE after[g - 1, LocalRngAfter(LocalPopulation - 1, r)]
    IN after[gens, rng]

\* np.argmax over the scores of [initial_list] + children, scored with
\* cycle_time 0
BestOfGeneration(ln, generation_children) ==
    generation_children[ArgMax([i \in 1..Len(generation_children) |->
        calculate_line_efficiency(generation_children[i], ln.input_dictionary, 0)])]

\* index 0 of the unique best solutions is the best child of the first
\* generation; the later generations draw as the first does, whatever the
\* population holds
LocalFirstGeneration(ln, initial_list, ch) ==
    [first |-> BestOfGeneration(ln, <<initial_list>> \o ch.list),
     rng |-> LocalRngAfterGenerations(LocalGenerations - 1, ch.rng)]

\* the first generation bred from [initial_list] + the neighbours nb
LocalGeneticFrom(ln, initial_list, ct, np, nb) ==
    LocalFirstGeneration(ln, initial_list,
        DrawnLocalChildren(ln, <<initial_list>> \o nb.list, ct, LocalPopulation - 1,
                           [py |-> nb.py, np |-> np]))

\* local_search_genetic(...)[0] and the generators it leaves
DrawnLocalSearchGenetic(ln, initial_list, ct, rng) ==
    LocalGeneticFrom(ln, initial_list, ct, rng.np,
        DrawnNeighbours(ln, initial_list, ct, LocalPopulation - 1, rng.py))

\* local_search_procedure(...)[0], skipped in mode 'heuristic'
DrawnLocalSearch(ln, stations, ct, mode, rng) ==
    IF mode = "heuristic" THEN [first |-> stations, rng |-> rng]
    ELSE IF mode = "genetics" THEN DrawnLocalSearchGenetic(ln, stations, ct, rng)
    ELSE DrawnLocalSearchHeuristic(ln, stations, ct, rng)

\* the two best of the three warriors, flattened
DrawnParents(ln, pop, ct, idx) ==
    LET sorted_warriors == SortByEff([i \in 1..3 |-> pop[idx[i]]], ln.input_dictionary, ct)
    IN <<Flatten(sorted_warriors[1]), Flatten(sorted_warriors[2])>>

\* if rd.random() < p_c: crossover, else the parents unchanged
DrawnCrossed(parents, regions, pcross, py) ==
    IF py < pcross
    THEN DrawnCrossover(parents[1], parents[2], regions, py_step(py))
    ELSE [child1 |-> parents[1], child2 |-> parents[2], py |-> py_step(py)]

\* if rd.random() < p_m: region_based_mutation, else the child unchanged
DrawnMutated(chromosome, aps, regions, pmut, py) ==
    IF py < pmut
    THEN DrawnMutation(chromosome, aps, regions, py_step(py))
    ELSE [seq |-> chromosome, py |-> py_step(py)]

\* the generator states other code can leave behind before a call
AmbientStates ==
    {<<v, RngMod - 1 - v>> : v \in {(k * RngMod) \div (MaxAmbient + 1) : k \in 0..MaxAmbient}}

SeededInit ==
    /\ \E inp \in GAInputs : line = Line(inp.tl) /\ cycle_time = inp.ct
    /\ Len(line.task_list) = MaxGATasks
    /\ Cardinality(RandomSequences(line.graph.succ)) > 1
    /\ method = "lcr"
    /\ pc = "ga_seed"
    /\ graph = line.graph.succ
    /\ station_list = <<>>
    /\ current_station = <<>>
    /\ parent1_seq = <<>> /\ parent2_seq = <<>>
    /\ child1_seq = <<>> /\ child2_seq = <<>>
    /\ selected_region = {}
    /\ local_search \in {"heuristic", "local", "genetics"}
    /\ size = PopSize
    /\ generation \in 1..MaxGen
    /\ out = MaxOut
    /\ p_c = RngMod \div 2 /\ p_m = RngMod \div 2
    /\ seed \in {NoSeed} \cup 0..MaxSeed
    /\ ambient \in AmbientStates
    /\ py_state = ambient[1] /\ np_state = ambient[2]
    /\ call = 1 /\ first_call = <<>>
    /\ population = <<>> /\ new_population = <<>> /\ best_solutions = <<>>
    /\ gen = 0 /\ ret = <<>>
    /\ UIdle
    /\ ComsoalIdle /\ LocalIdle

\* if seed is not None: random.seed(seed); np.random.seed(seed)
SeededSeed ==
    /\ pc = "ga_seed"
    /\ IF seed # NoSeed
       THEN /\ py_state' = random_seed(py_state, seed)
            /\ np_state' = np_random_seed(np_state, seed)
       ELSE UNCHANGED <<py_state, np_state>>
    /\ pc' = "ga_start"
    /\ UNCHANGED <<lineVars, cfgVars, localVars, comsoalVars, uVars, heurVars, seqVars, gaVars, ambient, call,
                   first_call>>

SeededInitialPopulation ==
    /\ pc = "ga_start"
    /\ \E drawn \in {DrawnPopulation(line, cycle_time, size, py_state)} :
          population' = drawn.list /\ py_state' = drawn.py
    /\ pc' = "ga_evolve"
    /\ UNCHANGED <<lineVars, cfgVars, localVars, comsoalVars, uVars, heurVars, seqVars, local_search, size,
                   new_population, best_solutions, gen, ret, np_state, ambient, call,
                   first_call>>

\* one tournament of genetic_algorithms under the current generator states:
\* selection, crossover, two mutations, packing and two local searches, each
\* reading the generators the previous step left
SeededTournament ==
    /\ pc = "ga_evolve"
    /\ gen < generation
    /\ \E aps \in {find_articulation_points(line.graph.succ)} :
       \E regions \in {find_regions(line.graph.succ, aps)} :
       \E w \in {DrawnWarriors(Len(population), np_state)} :
       \E crossed \in {DrawnCrossed(DrawnParents(line, population, cycle_time, w.idx),
                                    regions, p_c, py_state)} :
       \E m1 \in {DrawnMutated(crossed.child1, aps, regions, p_m, crossed.py)} :
       \E m2 \in {DrawnMutated(crossed.child2, aps, regions, p_m, m1.py)} :
       \E l1 \in {DrawnLocalSearch(line, heuristic_task_allocating(line, m1.seq, cycle_time),
                                   cycle_time, local_search,
                                   [py |-> m2.py, np |-> w.np])} :
       \E l2 \in {DrawnLocalSearch(line, heuristic_task_allocating(line, m2.seq, cycle_time),
                                   cycle_time, local_search, l1.rng)} :
          LET started == IF Len(new_population) = 2 * (size \div 2)
                         THEN <<>> ELSE new_population
              np == started \o <<l1.first, l2.first>>
          IN /\ new_population' = np
             /\ py_state' = l2.rng.py /\ np_state' = l2.rng.np
             /\ IF Len(np) = 2 * (size \div 2)
                THEN LET scored == Elitism(population \o np)
                     IN /\ population' = SubSeq(scored, 1, size)
                        /\ best_solutions' = Append(best_solutions, scored[1])
                        /\ gen' = gen + 1
                ELSE UNCHANGED <<population, best_solutions, gen>>
    /\ UNCHANGED <<lineVars, cfgVars, localVars, comsoalVars, uVars, heurVars, seqVars, pc, local_search, size, ret,
                   ambient, call, first_call>>

SeededReturn ==
    /\ pc = "ga_evolve"
    /\ gen = generation
    /\ ret' = Returned(line, best_solutions, cycle_time, out)
    /\ pc' = "ga_returned"
    /\ UNCHANGED <<lineVars, cfgVars, localVars, comsoalVars, uVars, rngVars, heurVars, seqVars, local_search, size,
                   population, new_population, best_solutions, gen>>

\* between the two calls other code draws from (or reseeds) both generators;
\* the second call starts from the same arguments
SeededCallAgain ==
    /\ pc = "ga_returned"
    /\ call = 1
    /\ first_call' = [ambient |-> ambient, ret |-> ret]
    /\ ambient' \in AmbientStates
    /\ py_state' = ambient'[1] /\ np_state' = ambient'[2]
    /\ call' = 2
    /\ population' = <<>> /\ new_population' = <<>> /\ best_solutions' = <<>>
    /\ gen' = 0 /\ ret' = <<>>
    /\ pc' = "ga_seed"
    /\ UNCHANGED <<lineVars, cfgVars, localVars, comsoalVars, uVars, heurVars, seqVars, local_search, size>>

SeededNext ==
    \/ SeededSeed \/ SeededInitialPopulation \/ SeededTournament
    \/ SeededReturn \/ SeededCallAgain

SeededSpec == SeededInit /\ [][SeededNext]_vars

\* ------------------------------------------ U-shaped balancing (u_type.py)
\* nx.topological_sort: nodes of in-degree 0 in node order, then, node by
\* node, the successors whose last unmet predecessor that node was
RECURSIVE topological_sort_from(_, _, _)
topological_sort_from(succ, queue, indegree) ==
    IF queue = <<>> THEN <<>>
    ELSE LET u == Head(queue)
         IN <<u>> \o topological_sort_from(
                succ,
                Tail(queue) \o SelectSeq(succ[u], LAMBDA c : indegree[c] = 1),
                [c \in DOMAIN indegree |->
                    IF Contains(succ[u], c) THEN indegree[c] - 1 ELSE indegree[c]])

topological_sort(succ, n) ==
    LET indegree == [v \in DOMAIN succ |-> Cardinality(predecessors(succ, v))]
        node_list == [i \in 1..(n + 2) |-> i - 2]
    IN topological_sort_from(succ, SelectSeq(node_list, LAMBDA v : indegree[v] = 0),
                             indegree)

\* graph.predecessors in insertion order: a task's declared predecessors (or
\* the start node), and for the end node the tasks without successor in
\* topological order
PredecessorLists(tl) ==
    LET n == Len(tl)
        plain == AddTasks([u \in Nodes(n) |-> <<>>], tl, 1)
    IN [v \in Nodes(n) |->
          IF v = SINK
          THEN SelectSeq(topological_sort(plain, n),
                         LAMBDA u : u # SINK /\ plain[u] = <<>>)
          ELSE IF v = SOURCE THEN <<>>
          ELSE IF tl[v].preds = {} THEN <<SOURCE>>
          ELSE SortedSeq(tl[v].preds)]

\* copy.deepcopy(line.graph): both adjacencies of the working copy
u_type_graph(ln) == [succ |-> ln.graph.succ, pred |-> PredecessorLists(ln.task_list)]

\* _create_graph_for_ushape: the task's time plus that of every task it
\* depends on, for the nodes 1..n
reversed_total_weight(ln) ==
    [i \in 1..Len(ln.task_list) |->
        SumSet({i} \cup ancestors(ln.graph.succ, i), ln.graph.time)]

u_add_edge(g, u, v) ==
    IF Contains(g.succ[u], v) THEN g
    ELSE [succ |-> [g.succ EXCEPT ![u] = Append(@, v)],
          pred |-> [g.pred EXCEPT ![v] = Append(@, u)]]

u_remove_edge(g, u, v) ==
    [succ |-> [g.succ EXCEPT ![u] = Remove(@, v)],
     pred |-> [g.pred EXCEPT ![v] = Remove(@, u)]]

\* sum(list(graph.predecessors(task))) == 0 over graph.successors(0)
front_feasible_tasks(g) ==
    SelectSeq(g.succ[SOURCE], LAMBDA task : SumIds(Range(g.pred[task])) = 0)

\* sum(list(graph.successors(task))) == 0 over graph.predecessors(-1)
back_feasible_tasks(g) ==
    SelectSeq(g.pred[SINK], LAMBDA task : SumIds(Range(g.succ[task])) = 0)

\* graph.nodes[task]['reversed_total_weight'] / ['total_weight'] exist
HasWeights(ln, back_tasks, front_tasks) ==
    /\ Range(back_tasks) \subseteq DOMAIN reversed_total_weight(ln)
    /\ Range(front_tasks) \subseteq DOMAIN ln.graph.total_weight

\* the dict keeps a key where it was first inserted and its last value
find_reversed_candidate_list(ln, back_tasks, front_tasks) ==
    LET keys == back_tasks \o SelectSeq(front_tasks, LAMBDA t : ~Contains(back_tasks, t))
        node_weights == [t \in Range(keys) |->
                           IF Contains(front_tasks, t) THEN ln.graph.total_weight[t]
                           ELSE reversed_total_weight(ln)[t]]
    IN SortDesc(keys, node_weights)

\* candidate_list[0], candidate_list[-1] = candidate_list[-1], candidate_list[0]
SwapEnds(s) ==
    [i \in 1..Len(s) |-> IF i = 1 THEN s[Len(s)] ELSE IF i = Len(s) THEN s[1] ELSE s[i]]

\* "Remove from front"
remove_from_front(g, task) ==
    LET successors == g.succ[task]
        RECURSIVE Rewire(_, _)
        Rewire(h, i) ==
            IF i > Len(successors) THEN h
            ELSE Rewire(u_add_edge(h, SOURCE, successors[i]), i + 1)
        RECURSIVE Drop(_, _)
        Drop(h, i) ==
            IF i > Len(successors) THEN h
            ELSE Drop(u_remove_edge(h, task, successors[i]), i + 1)
    IN u_remove_edge(Drop(Rewire(g, 1), 1), SOURCE, task)

\* "Remove from back"
remove_from_back(g, task) ==
    LET predecessor_list == g.pred[task]
        RECURSIVE Rewire(_, _)
        Rewire(h, i) ==
            IF i > Len(predecessor_list) THEN h
            ELSE Rewire(u_remove_edge(u_add_edge(h, predecessor_list[i], SINK),
                                      predecessor_list[i], task), i + 1)
    IN u_remove_edge(Rewire(g, 1), task, SINK)

\* the label appended for the task
SideOf(task, front_feasible, back_feasible) ==
    IF Contains(front_feasible, task) /\ Contains(back_feasible, task) THEN "F-B"
    ELSE IF Contains(back_feasible, task) THEN "B"
    ELSE "F"

\* the graph update of u_type_balance for the task
RetireBySide(g, task, front_feasible, back_feasible) ==
    IF SideOf(task, front_feasible, back_feasible) = "B"
    THEN remove_from_back(g, task)
    ELSE remove_from_front(g, task)

\* len(list(graph.successors(0))) == 1 and list(graph.successors(0))[0] == -1
u_is_finished(g) == g.succ[SOURCE] = <<SINK>>

UTypeInit ==
    /\ \E n \in 1..MaxUTasks : \E tl \in TaskListsOf(n, 1..MaxDur) : line = Line(tl)
    /\ cycle_time \in 1..MaxCycle
    /\ method \in {"lcr", "hb", "comsoal"}
    /\ pc = IF method = "comsoal" THEN "u_comsoal_loop" ELSE "u_type"
    /\ graph = u_type_graph(line)
    /\ station_list = <<>>
    /\ current_station = <<>>
    /\ task_sides = <<>>
    /\ first = TRUE
    /\ iteration \in IF method = "comsoal" THEN 1..MaxIter ELSE {MaxIter}
    /\ restart = 0
    \* best_solution = None: no station list, told apart by best_efficiency
    /\ best_solution = <<>> /\ best_efficiency = MinusOne /\ best_sides = <<>>
    /\ parent1_seq = <<>> /\ parent2_seq = <<>>
    /\ child1_seq = <<>> /\ child2_seq = <<>>
    /\ selected_region = {}
    /\ local_search = "heuristic" /\ size = 0
    /\ population = <<>> /\ new_population = <<>> /\ best_solutions = <<>>
    /\ gen = 0 /\ ret = <<>>
    /\ GAIdle
    /\ ComsoalIdle /\ LocalIdle

\* the candidate list of one loop iteration of u_type_balance, after the
\* swap of the first selection
UTypeCandidates ==
    LET sorted == find_reversed_candidate_list(line, back_feasible_tasks(graph),
                                               front_feasible_tasks(graph))
    IN IF first /\ Len(sorted) > 1 THEN SwapEnds(sorted) ELSE sorted

\* `first` is cleared only when the swap is made
FirstAfter == first /\ Len(UTypeCandidates) <= 1

\* the task is appended to `station`, labelled and retired; the loop ends
\* when the start node's only successor is the end node
UTypeAssign(task, closed, station) ==
    LET front_feasible == front_feasible_tasks(graph)
        back_feasible == back_feasible_tasks(graph)
        g1 == RetireBySide(graph, task, front_feasible, back_feasible)
        sides == Append(task_sides, SideOf(task, front_feasible, back_feasible))
    IN /\ graph' = g1
       /\ current_station' = station
       /\ task_sides' = sides
       /\ first' = FirstAfter
       /\ IF u_is_finished(g1)
          THEN /\ station_list' = Append(closed, station)
               /\ ret' = <<Append(closed, station), sides>>
               /\ pc' = "returned"
          ELSE /\ station_list' = closed
               /\ UNCHANGED <<ret, pc>>

\* a feasible node carries no weight: node_weights[task] = graph.nodes[task][...]
\* raises KeyError
UTypeKeyError ==
    /\ pc = "u_type"
    /\ ~HasWeights(line, back_feasible_tasks(graph), front_feasible_tasks(graph))
    /\ pc' = "KeyError"
    /\ UNCHANGED <<lineVars, cfgVars, localVars, comsoalVars, rngVars, heurVars, seqVars, gaVars, task_sides, first,
                   iteration, restart, best_solution, best_efficiency, best_sides>>

\* one loop iteration in which some candidate fits the open station
UTypeAdd ==
    /\ pc = "u_type"
    /\ HasWeights(line, back_feasible_tasks(graph), front_feasible_tasks(graph))
    /\ LET cl == UTypeCandidates
           fit == {i \in 1..Len(cl) : Fits(line, current_station, cl[i], cycle_time)}
       IN /\ fit # {}
          /\ LET i == CHOOSE j \in fit : \A k \in fit : j <= k
             IN UTypeAssign(cl[i], station_list, Append(current_station, cl[i]))
    /\ UNCHANGED <<lineVars, cfgVars, localVars, comsoalVars, rngVars, seqVars, local_search, size, population, new_population,
                   best_solutions, gen, iteration, restart,
                   best_solution, best_efficiency, best_sides>>

\* one loop iteration in which no candidate fits: a new station is opened
\* with the first candidate
UTypeNewStation ==
    /\ pc = "u_type"
    /\ HasWeights(line, back_feasible_tasks(graph), front_feasible_tasks(graph))
    /\ LET cl == UTypeCandidates
           fit == {i \in 1..Len(cl) : Fits(line, current_station, cl[i], cycle_time)}
       IN /\ fit = {}
          /\ IF cl = <<>>
             THEN \* candidate_list[0] raises IndexError
                  /\ pc' = "IndexError"
                  /\ UNCHANGED <<heurVars, task_sides, first, ret>>
             ELSE UTypeAssign(cl[1],
                              IF current_station # <<>>
                              THEN Append(station_list, current_station)
                              ELSE station_list,
                              <<cl[1]>>)
    /\ UNCHANGED <<lineVars, cfgVars, localVars, comsoalVars, rngVars, seqVars, local_search, size, population, new_population,
                   best_solutions, gen, iteration, restart,
                   best_solution, best_efficiency, best_sides>>

\* for _ in range(iteration): a restart begins on a fresh working copy
UComsoalRestart ==
    /\ pc = "u_comsoal_loop"
    /\ restart < iteration
    /\ graph' = u_type_graph(line)
    /\ station_list' = <<>>
    /\ current_station' = <<>>
    /\ task_sides' = <<>>
    /\ pc' = "u_comsoal"
    /\ UNCHANGED <<lineVars, cfgVars, localVars, comsoalVars, rngVars, seqVars, gaVars, first, iteration, restart,
                   best_solution, best_efficiency, best_sides>>

\* the end of a restart: the solution replaces the best one if its
\* efficiency is strictly higher
UComsoalEvaluate(stations, sides) ==
    LET efficiency == calculate_line_efficiency(stations, line.input_dictionary, cycle_time)
    IN /\ IF EffGT(efficiency, best_efficiency)
          THEN /\ best_efficiency' = efficiency
               /\ best_solution' = stations
               /\ best_sides' = sides
          ELSE UNCHANGED <<best_solution, best_efficiency, best_sides>>
       /\ restart' = restart + 1
       /\ pc' = "u_comsoal_loop"

\* one loop iteration of a restart: a random feasible node, packed, labelled
\* and retired (from a random side when it is feasible on both)
UComsoalSelect ==
    /\ pc = "u_comsoal"
    /\ LET front_feasible == front_feasible_tasks(graph)
           back_feasible == back_feasible_tasks(graph)
           all_feasible == Range(front_feasible) \cup Range(back_feasible)
       IN IF all_feasible = {}
          THEN \* break
               /\ UComsoalEvaluate(station_list, task_sides)
               /\ UNCHANGED <<heurVars, task_sides>>
          ELSE \E selected_task \in all_feasible :
               \E side \in IF SideOf(selected_task, front_feasible, back_feasible) = "F-B"
                           THEN {"F", "B"}
                           ELSE {SideOf(selected_task, front_feasible, back_feasible)} :
                  LET fits == Fits(line, current_station, selected_task, cycle_time)
                      closed == IF ~fits /\ current_station # <<>>
                                THEN Append(station_list, current_station)
                                ELSE station_list
                      station == IF fits THEN Append(current_station, selected_task)
                                 ELSE <<selected_task>>
                      g1 == IF side = "B" THEN remove_from_back(graph, selected_task)
                            ELSE remove_from_front(graph, selected_task)
                      sides == Append(task_sides,
                                      SideOf(selected_task, front_feasible, back_feasible))
                  IN /\ graph' = g1
                     /\ current_station' = station
                     /\ task_sides' = sides
                     /\ IF u_is_finished(g1)
                        THEN /\ station_list' = Append(closed, station)
                             /\ UComsoalEvaluate(Append(closed, station), sides)
                        ELSE /\ station_list' = closed
                             /\ UNCHANGED <<pc, restart, best_solution, best_efficiency,
                                            best_sides>>
    /\ UNCHANGED <<lineVars, cfgVars, localVars, comsoalVars, rngVars, seqVars, gaVars, first, iteration>>

\* return best_solution, best_sides
UComsoalReturn ==
    /\ pc = "u_comsoal_loop"
    /\ restart = iteration
    /\ ret' = <<best_solution, best_sides>>
    /\ pc' = "returned"
    /\ UNCHANGED <<lineVars, cfgVars, localVars, comsoalVars, rngVars, heurVars, seqVars, local_search, size, population, new_population,
                   best_solutions, gen, task_sides,
                   first, iteration, restart, best_solution, best_efficiency, best_sides>>

UTypeNext ==
    \/ UTypeKeyError \/ UTypeAdd \/ UTypeNewStation
    \/ UComsoalRestart \/ UComsoalSelect \/ UComsoalReturn

UTypeSpec == UTypeInit /\ [][UTypeNext]_vars

\* ------------------------------------------ the metrics as entry points
\* A metric's value is kept exactly as a + b * sqrt(s) / d, the record
\* (a, b, s, d): np.sqrt is never evaluated.
\* calculate_smooth_index: a zero cycle_time is replaced by the largest
\* station time and is not read again; the value is sqrt(s)
calculate_smooth_index(stations, task_times, ct) ==
    LET st == station_times(stations, task_times)
        c == IF ct = 0 THEN MaxOf(Range(st)) ELSE ct
    IN [a |-> 0, b |-> 1, s |-> SmoothIndexSquared(stations, task_times), d |-> 1]

\* 100 - ((100 * smooth_index) / (len(station_times) * cycle_time))
line_efficiency(e) == [a |-> 100, b |-> -100, s |-> e.s, d |-> e.d]

\* 100 - calculate_line_efficiency(...)
calculate_loss_balance(stations, task_times, ct) ==
    LET e == line_efficiency(calculate_line_efficiency(stations, task_times, ct))
    IN [a |-> 100 - e.a, b |-> 0 - e.b, s |-> e.s, d |-> e.d]

\* the ways to cut a task sequence into non-empty stations
RECURSIVE SplitsOf(_)
SplitsOf(seq) ==
    IF seq = <<>> THEN {<<>>}
    ELSE UNION {{<<SubSeq(seq, 1, k)>> \o rest :
                    rest \in SplitsOf(SubSeq(seq, k + 1, Len(seq)))} : k \in 1..Len(seq)}

\* the documented call: task_times {1: 2, 2: 5, 3: 4, 4: 3}, stations
\* [[1, 3], [2], [4]], cycle_time 6
ExampleStations == << <<1, 3>>, <<2>>, <<4>> >>

MetricsInit ==
    /\ \/ /\ \E n \in 1..MaxTasks : \E tl \in TaskListsOf(n, 1..MaxDur) :
                /\ line = Line(tl)
                /\ \A i \in 1..n : tl[i].preds = {}
          /\ station_list \in UNION {SplitsOf(seq) :
                                        seq \in TaskPermutations(Len(line.task_list))}
          /\ cycle_time \in 0..MaxCycle
       \/ /\ line = Line(ExampleTasks)
          /\ station_list = ExampleStations
          /\ cycle_time \in {0, ExampleCycle}
    /\ method = "lcr"
    /\ pc = "metrics"
    /\ graph = line.graph.succ
    /\ current_station = <<>>
    /\ parent1_seq = <<>> /\ parent2_seq = <<>>
    /\ child1_seq = <<>> /\ child2_seq = <<>>
    /\ selected_region = {}
    /\ local_search = "heuristic" /\ size = 0
    /\ population = <<>> /\ new_population = <<>> /\ best_solutions = <<>>
    /\ gen = 0 /\ ret = <<>>
    /\ GAIdle
    /\ UIdle
    /\ ComsoalIdle /\ LocalIdle

MetricsSmoothIndex ==
    /\ pc = "metrics"
    /\ ret' = calculate_smooth_index(station_list, line.input_dictionary, cycle_time)
    /\ pc' = "smooth_index"
    /\ UNCHANGED <<lineVars, cfgVars, localVars, comsoalVars, uVars, rngVars, heurVars, seqVars, local_search, size,
                   population, new_population, best_solutions, gen>>

MetricsLineEfficiency ==
    /\ pc = "metrics"
    /\ ret' = line_efficiency(
                 calculate_line_efficiency(station_list, line.input_dictionary, cycle_time))
    /\ pc' = "line_efficiency"
    /\ UNCHANGED <<lineVars, cfgVars, localVars, comsoalVars, uVars, rngVars, heurVars, seqVars, local_search, size,
                   population, new_population, best_solutions, gen>>

MetricsLossBalance ==
    /\ pc = "metrics"
    /\ ret' = calculate_loss_balance(station_list, line.input_dictionary, cycle_time)
    /\ pc' = "loss_balance"
    /\ UNCHANGED <<lineVars, cfgVars, localVars, comsoalVars, uVars, rngVars, heurVars, seqVars, local_search, size,
                   population, new_population, best_solutions, gen>>

MetricsNext == MetricsSmoothIndex \/ MetricsLineEfficiency \/ MetricsLossBalance

MetricsSpec == MetricsInit /\ [][MetricsNext]_vars

\* ----------------------------------------- comsoal_algorithm (comsoal.py)
\* every successor of the start node is kept, feasible or not
KeepAllSuccessors(task_list, succ) == task_list

\* the tasks of task_list whose predecessors sum to 0
remove_non_feasibles(task_list, succ) ==
    SelectSeq(task_list, LAMBDA task : SumIds(predecessors(succ, task)) = 0)

\* what local_search_heuristic can return: the initial list, then the
\* distinct neighbours drawn in the order of their first draw
local_search_heuristic(ln, initial_list, ct) ==
    LET others == Neighbours1(ln, initial_list, ct) \ {initial_list}
        orders == UNION {{q \in [1..m -> others] :
                            \A i, j \in 1..m : q[i] = q[j] => i = j} :
                         m \in 0..Cardinality(others)}
    IN {<<initial_list>> \o q :
          q \in {o \in orders : initial_list \in Neighbours1(ln, initial_list, ct)
                                   \/ o # <<>>}}

ComsoalInit ==
    /\ \E n \in 1..MaxGATasks : \E tl \in TaskListsOf(n, 1..MaxDur) : line = Line(tl)
    /\ cycle_time \in 1..MaxCycle
    /\ method = "comsoal"
    /\ pc = "comsoal_select"
    /\ graph = line.graph.succ
    /\ station_list = <<>> /\ current_station = <<>>
    /\ task_sequence = <<>> /\ generation_list = <<>> /\ LocalIdle
    /\ iteration \in 1..MaxIter /\ restart = 0
    /\ local_search \in {"heuristic", "local"}
    /\ task_sides = <<>> /\ first = TRUE
    /\ best_solution = <<>> /\ best_efficiency = MinusOne /\ best_sides = <<>>
    /\ parent1_seq = <<>> /\ parent2_seq = <<>>
    /\ child1_seq = <<>> /\ child2_seq = <<>>
    /\ selected_region = {}
    /\ size = 0
    /\ population = <<>> /\ new_population = <<>> /\ best_solutions = <<>>
    /\ gen = 0 /\ ret = <<>>
    /\ GAIdle

\* one pass of the while loop: a feasible task is drawn, appended and retired
ComsoalSelect ==
    /\ pc = "comsoal_select"
    /\ LET feasible == remove_non_feasibles(graph[SOURCE], graph)
       IN IF feasible = <<>>
          THEN \* rd.choice of an empty list
               /\ pc' = "IndexError"
               /\ UNCHANGED <<graph, task_sequence>>
          ELSE \E selected_task \in Range(feasible) :
               /\ task_sequence' = Append(task_sequence, selected_task)
               /\ graph' = Retire(graph, selected_task)
               /\ pc' = IF graph'[SOURCE] = <<SINK>> THEN "comsoal_allocate"
                         ELSE "comsoal_select"
    /\ UNCHANGED <<lineVars, station_list, current_station, seqVars, gaVars, cfgVars, localVars,
                   rngVars, uVars, generation_list>>

\* the finished sequence is packed into stations, passed through the local
\* search unless the mode is 'heuristic', and gathered; the next restart
\* starts from a fresh copy of the graph
ComsoalAllocate ==
    /\ pc = "comsoal_allocate"
    /\ station_list' = heuristic_task_allocating(line, task_sequence, cycle_time)
    /\ IF local_search # "heuristic"
       THEN \E improved_solutions \in local_search_heuristic(line, station_list', cycle_time) :
               generation_list' = generation_list \o improved_solutions
       ELSE generation_list' = Append(generation_list, station_list')
    /\ restart' = restart + 1
    /\ graph' = line.graph.succ
    /\ pc' = IF restart' < iteration THEN "comsoal_restart" ELSE "comsoal_unique"
    /\ UNCHANGED <<lineVars, current_station, seqVars, gaVars, cfgVars, localVars, rngVars,
                   task_sides, first, iteration, best_solution, best_efficiency,
                   best_sides, task_sequence>>

\* the next restart: task_sequence = []
ComsoalRestart ==
    /\ pc = "comsoal_restart"
    /\ task_sequence' = <<>>
    /\ pc' = "comsoal_select"
    /\ UNCHANGED <<lineVars, heurVars, seqVars, gaVars, cfgVars, localVars, rngVars, uVars,
                   generation_list>>

\* the unique station lists, in order of first appearance
ComsoalReturn ==
    /\ pc = "comsoal_unique"
    /\ ret' = Unique(generation_list)
    /\ pc' = "returned"
    /\ UNCHANGED <<lineVars, heurVars, seqVars, cfgVars, localVars, rngVars, uVars, comsoalVars,
                   local_search, size, population, new_population, best_solutions, gen>>

ComsoalNext == ComsoalSelect \/ ComsoalAllocate \/ ComsoalRestart \/ ComsoalReturn

ComsoalSpec == ComsoalInit /\ [][ComsoalNext]_vars

\* ------------------------- comsoal_algorithm with cycle_time=None (comsoal.py)
\* sum(task[2] for task in line.task_list)
total_time(ln) ==
    SumSet(1..Len(ln.task_list), [i \in 1..Len(ln.task_list) |-> ln.task_list[i].time])

\* max(2, int(total_time / max_task_time))
estimated_stations(ln) ==
    LET max_task_time == MaxOf({ln.task_list[i].time : i \in 1..Len(ln.task_list)})
    IN MaxOf({2, total_time(ln) \div max_task_time})

\* total_time / estimated_stations, for the task lists where the quotient is
\* a whole number
auto_cycle_time(ln) == total_time(ln) \div estimated_stations(ln)

\* a call without cycle_time, on a task list whose derived cycle time is whole
AutoCycleInit ==
    /\ \E n \in 1..MaxGATasks : \E tl \in TaskListsOf(n, 1..MaxDur) : line = Line(tl)
    /\ total_time(line) % estimated_stations(line) = 0
    /\ cycle_time = NoCycle
    /\ method = "comsoal"
    /\ pc = "comsoal_cycle"
    /\ graph = line.graph.succ
    /\ station_list = <<>> /\ current_station = <<>>
    /\ task_sequence = <<>> /\ generation_list = <<>> /\ LocalIdle
    /\ iteration \in 1..MaxIter /\ restart = 0
    /\ local_search \in {"heuristic", "local"}
    /\ task_sides = <<>> /\ first = TRUE
    /\ best_solution = <<>> /\ best_efficiency = MinusOne /\ best_sides = <<>>
    /\ parent1_seq = <<>> /\ parent2_seq = <<>>
    /\ child1_seq = <<>> /\ child2_seq = <<>>
    /\ selected_region = {}
    /\ size = 0
    /\ population = <<>> /\ new_population = <<>> /\ best_solutions = <<>>
    /\ gen = 0 /\ ret = <<>>
    /\ GAIdle

\* if cycle_time is None: cycle_time = total_time / estimated_stations
ComsoalCycleTime ==
    /\ pc = "comsoal_cycle"
    /\ cycle_time' = IF cycle_time = NoCycle THEN auto_cycle_time(line) ELSE cycle_time
    /\ pc' = "comsoal_select"
    /\ UNCHANGED <<line, method, heurVars, seqVars, gaVars, cfgVars, localVars, rngVars, uVars,
                   comsoalVars>>

AutoCycleNext == ComsoalCycleTime \/ ComsoalNext

AutoCycleSpec == AutoCycleInit /\ [][AutoCycleNext]_vars

\* ------------------------------------ genetic_algorithms over two generations
MaxElite == 2

\* genetic_algorithms(line, cycle_time, generation=MaxElite, local_search=
\* 'heuristic') on the task lists of GAInputs
ElitismInit ==
    /\ \E inp \in GAInputs : line = Line(inp.tl) /\ cycle_time = inp.ct
    /\ method = "lcr"
    /\ pc = "ga_start"
    /\ graph = line.graph.succ
    /\ station_list = <<>>
    /\ current_station = <<>>
    /\ parent1_seq = <<>> /\ parent2_seq = <<>>
    /\ child1_seq = <<>> /\ child2_seq = <<>>
    /\ selected_region = {}
    /\ local_search = "heuristic"
    /\ size = PopSize
    /\ generation = MaxElite
    /\ out \in 1..MaxOut
    /\ p_c = RngMod \div 2 /\ p_m = RngMod \div 2
    /\ RngIdle
    /\ population = <<>> /\ new_population = <<>> /\ best_solutions = <<>>
    /\ gen = 0 /\ ret = <<>>
    /\ UIdle
    /\ ComsoalIdle /\ LocalIdle

ElitismSpec == ElitismInit /\ [][GANext]_vars

\* ------------------------------ local_search_procedure and mutation_local alone
\* the population and the generations of local_search_genetic the runs cover
MaxLocalPop == 3
MaxLocalGen == 2

\* task lists of independent tasks, and of tasks that each wait for the task
\* before them
LocalTaskLists ==
    {tl \in TaskLists :
        \/ \A i \in 1..Len(tl) : tl[i].preds = {}
        \/ \A i \in 1..Len(tl) : tl[i].preds = {i - 1} \ {0}}

\* the tasks in ascending and in descending order
LocalOrders(n) == {[i \in 1..n |-> i], [i \in 1..n |-> n + 1 - i]}

\* any station list over the tasks of the line: the tasks cut into stations
\* anywhere, within the cycle time or not, in precedence order or not; the
\* whole procedure is run on the lines of up to MaxGATasks tasks
LocalInit ==
    /\ \E tl \in LocalTaskLists : line = Line(tl)
    /\ cycle_time \in 1..MaxCycle
    /\ method = "lcr"
    /\ pc \in IF Len(line.task_list) <= MaxGATasks
              THEN {"mutation_local", "local_search_procedure"}
              ELSE {"mutation_local"}
    /\ graph = line.graph.succ
    /\ \E seq \in LocalOrders(Len(line.task_list)) : station_list \in SplitsOf(seq)
    /\ current_station = <<>>
    /\ parent1_seq = <<>> /\ parent2_seq = <<>>
    /\ child1_seq = <<>> /\ child2_seq = <<>>
    /\ selected_region = {}
    /\ local_search \in IF pc = "mutation_local" THEN {"local"}
                       ELSE {"heuristic", "local", "genetics"}
    /\ size = 0
    /\ population = <<>> /\ new_population = <<>> /\ best_solutions = <<>>
    /\ gen = 0 /\ ret = <<>>
    /\ GAIdle /\ UIdle /\ ComsoalIdle /\ LocalIdle

\* mutation_local(line, station_list, cycle_time): k = rd.randint(0, len - 1)
LocalMutation ==
    /\ pc = "mutation_local"
    /\ \E k \in 1..Len(station_list) :
         /\ drawn_k' = k
         /\ ret' = mutation_local(line, station_list, cycle_time, k)
    /\ pc' = "mutated"
    /\ UNCHANGED <<lineVars, heurVars, seqVars, cfgVars, rngVars, uVars, comsoalVars,
                   local_search, size, population, new_population, best_solutions, gen>>

\* local_search_procedure(..., 'local' | 'heuristic'): local_search_heuristic
LocalSearchHeuristic ==
    /\ pc = "local_search_procedure"
    /\ local_search # "genetics"
    /\ ret' \in local_search_heuristic(line, station_list, cycle_time)
    /\ pc' = "returned"
    /\ UNCHANGED <<lineVars, heurVars, seqVars, cfgVars, localVars, rngVars, uVars,
                   comsoalVars, local_search, size, population, new_population,
                   best_solutions, gen>>

\* local_search_genetic: current_population = [initial_list] + neighbours
LocalPopulate ==
    /\ pc = "local_search_procedure"
    /\ local_search = "genetics"
    /\ \E nb \in [1..(MaxLocalPop - 1) -> Neighbours1(line, station_list, cycle_time)] :
         population' = <<station_list>> \o nb
    /\ best_solutions' = <<>>
    /\ gen' = 0
    /\ pc' = "local_generation"
    /\ UNCHANGED <<lineVars, heurVars, seqVars, cfgVars, localVars, rngVars, uVars,
                   comsoalVars, local_search, size, new_population, ret>>

\* warriors[np.argmax(scores)] over every draw of three distinct indices
TournamentWinners(ln, current_population) ==
    {LET warriors == [j \in 1..3 |-> current_population[idx[j]]]
     IN BestOfGeneration(ln, warriors) :
        idx \in {f \in [1..3 -> 1..Len(current_population)] :
                    \A i, j \in 1..3 : f[i] = f[j] => i = j}}

\* a child: the winner, mutated (np.random.rand() < p_m) or not
LocalChildren(ln, current_population, ct) ==
    LET winners == TournamentWinners(ln, current_population)
    IN winners \cup UNION {Neighbours1(ln, w, ct) : w \in winners}

\* one generation: the initial list and population - 1 children; the best
\* child is recorded and the children become the population
LocalGeneration ==
    /\ pc = "local_generation"
    /\ gen < MaxLocalGen
    /\ \E ch \in [1..(MaxLocalPop - 1) -> LocalChildren(line, population, cycle_time)] :
         /\ population' = <<station_list>> \o ch
         /\ best_solutions' =
                Append(best_solutions, BestOfGeneration(line, <<station_list>> \o ch))
    /\ gen' = gen + 1
    /\ UNCHANGED <<lineVars, heurVars, seqVars, cfgVars, localVars, rngVars, uVars,
                   comsoalVars, pc, local_search, size, new_population, ret>>

\* return unique_solutions
LocalReturn ==
    /\ pc = "local_generation"
    /\ gen = MaxLocalGen
    /\ ret' = Unique(best_solutions)
    /\ pc' = "returned"
    /\ UNCHANGED <<lineVars, heurVars, seqVars, cfgVars, localVars, rngVars, uVars,
                   comsoalVars, local_search, size, population, new_population,
                   best_solutions, gen>>

LocalNext ==
    \/ LocalMutation
    \/ LocalSearchHeuristic
    \/ LocalPopulate
    \/ LocalGeneration
    \/ LocalReturn

LocalSpec == LocalInit /\ [][LocalNext]_vars

\* --------------------------- successive calls on one Line: what a call writes to
\* Objects are told apart by reference: a write through a reference reaches
\* every name bound to the same object.
MaxCalls == 2

LineGraphRef == [name |-> "line.graph", copy |-> 0]

StationListRef == [name |-> "station_list", copy |-> 0]

\* the reference a name bound to the same object holds
SameObject(ref) == ref

\* copy.deepcopy(obj): a new object, equal to obj
copy_deepcopy(ref) == [ref EXCEPT !.copy = 1]

GraphEntryPoints ==
    {"heuristic_method", "comsoal_algorithm", "genetic_algorithms", "u_type_balance"}

\* a Line of up to MaxGATasks tasks and a station list over its tasks
FrameInit ==
    /\ \E n \in 1..MaxGATasks : \E tl \in TaskListsOf(n, 1..MaxDur) : line = Line(tl)
    /\ cycle_time \in 1..MaxCycle
    /\ method = "lcr"
    /\ pc = "idle"
    /\ graph = [ref |-> LineGraphRef, obj |-> line.graph]
    /\ station_list \in SplitsOf([i \in 1..Len(line.task_list) |-> i])
    /\ current_station = <<>>
    /\ parent1_seq = <<>> /\ parent2_seq = <<>>
    /\ child1_seq = <<>> /\ child2_seq = <<>>
    /\ selected_region = {}
    /\ local_search = "local"
    /\ size = 0
    /\ population = <<>> /\ new_population = <<>> /\ best_solutions = <<>>
    /\ gen = 0
    /\ ret = [ref |-> StationListRef, obj |-> station_list]
    /\ GAIdle /\ UIdle /\ ComsoalIdle /\ LocalIdle

\* an assignment through ref of the graph object g
WriteGraph(ref, g) ==
    /\ graph' = [ref |-> ref, obj |-> g]
    /\ line' = IF ref = LineGraphRef THEN [line EXCEPT !.graph = g] ELSE line

\* an assignment through ref of the list object stations
WriteStations(ref, stations) ==
    /\ ret' = [ref |-> ref, obj |-> stations]
    /\ station_list' = IF ref = StationListRef THEN stations ELSE station_list

\* graph = copy.deepcopy(line.graph) at the head of heuristic_method, of each
\* restart of comsoal_algorithm and of each initial sequence of
\* genetic_algorithms; u_type_balance then has _create_graph_for_ushape set
\* graph.nodes[i]['reversed_total_weight'] on it
FrameCallOnGraph ==
    /\ pc = "idle"
    /\ call <= MaxCalls
    /\ pc' \in GraphEntryPoints
    /\ LET ref == copy_deepcopy(LineGraphRef)
       IN IF pc' = "u_type_balance"
          THEN WriteGraph(ref, [succ |-> line.graph.succ, time |-> line.graph.time,
                                total_weight |-> line.graph.total_weight,
                                reversed_total_weight |-> reversed_total_weight(line)])
          ELSE WriteGraph(ref, line.graph)
    /\ UNCHANGED <<cycle_time, method, station_list, current_station, seqVars, gaVars,
                   cfgVars, localVars, rngVars, uVars, comsoalVars>>

\* a task is assigned: graph.add_edge(0, successor), graph.remove_edges_from(
\* graph.edges(task)), graph.remove_edge(0, task)
FrameRetire ==
    /\ pc \in GraphEntryPoints
    /\ \E task \in Range(feasible_tasks(graph.obj.succ)) :
          WriteGraph(graph.ref, [graph.obj EXCEPT !.succ = Retire(@, task)])
    /\ UNCHANGED <<cycle_time, method, pc, station_list, current_station, seqVars,
                   gaVars, cfgVars, localVars, rngVars, uVars, comsoalVars>>

\* no task is left: the call returns
FrameReturn ==
    /\ pc \in GraphEntryPoints
    /\ feasible_tasks(graph.obj.succ) = <<>>
    /\ pc' = "idle"
    /\ call' = call + 1
    /\ UNCHANGED <<lineVars, heurVars, seqVars, gaVars, cfgVars, localVars, uVars,
                   comsoalVars, py_state, np_state, ambient, first_call>>

\* local_search_procedure -> mutation_local: stations =
\* copy.deepcopy(station_list), k = rd.randint(0, len(stations) - 1)
FrameCallLocalSearch ==
    /\ pc = "idle"
    /\ call <= MaxCalls
    /\ pc' = "local_search_procedure"
    /\ WriteStations(copy_deepcopy(StationListRef), station_list)
    /\ drawn_k' \in 1..Len(station_list)
    /\ UNCHANGED <<lineVars, graph, current_station, seqVars, cfgVars, rngVars, uVars,
                   comsoalVars, local_search, size, population, new_population,
                   best_solutions, gen>>

\* the move and the repair of mutation_local, written to stations
FrameMutate ==
    /\ pc = "local_search_procedure"
    /\ WriteStations(ret.ref, mutation_local(line, ret.obj, cycle_time, drawn_k))
    /\ pc' = "idle"
    /\ call' = call + 1
    /\ UNCHANGED <<lineVars, graph, current_station, seqVars, cfgVars, localVars, uVars,
                   comsoalVars, local_search, size, population, new_population,
                   best_solutions, gen, py_state, np_state, ambient, first_call>>

FrameNext ==
    \/ FrameCallOnGraph
    \/ FrameRetire
    \/ FrameReturn
    \/ FrameCallLocalSearch
    \/ FrameMutate

FrameSpec == FrameInit /\ [][FrameNext]_vars

\* ------------------------------------ the two constructive drivers together
\* a run of heuristic_method or a run of comsoal_algorithm
DriversInit == HeuristicInit \/ ComsoalInit

DriversNext == HeuristicNext \/ ComsoalNext

DriversSpec == DriversInit /\ [][DriversNext]_vars

\* ------------------------------------------- constructing a Line (line.py)
\* Line.__init__ on an arbitrary task list: task numbers and predecessors are
\* drawn from 1..MaxBuild, so two tasks may share a number, a predecessor may
\* name no task and the relation may be cyclic.  The DiGraph under
\* construction is [nodes, time, succ]: the nodes present, the 'time'
\* attribute of those that carry one, and the ordered adjacency.
BuildNodes == (-1)..MaxBuild

BuildTaskLists ==
    UNION {[1..n -> [num : 1..MaxBuild, preds : SUBSET (1..MaxBuild), time : 1..MaxDur]] :
              n \in 1..MaxBuild}

\* graph.add_node(u, time=t): a second call for the same node overwrites time
nx_add_node(g, u, t) ==
    [nodes |-> g.nodes \cup {u},
     time |-> [x \in DOMAIN g.time \cup {u} |-> IF x = u THEN t ELSE g.time[x]],
     succ |-> g.succ]

\* graph.add_edge(u, v): nodes not yet present are added without attributes
nx_add_edge(g, u, v) ==
    [nodes |-> g.nodes \cup {u, v}, time |-> g.time, succ |-> add_edge(g.succ, u, v)]

RECURSIVE nx_add_edges_to(_, _, _)
nx_add_edges_to(g, us, v) ==
    IF us = {} THEN g
    ELSE LET u == CHOOSE x \in us : \A y \in us : x <= y
         IN nx_add_edges_to(nx_add_edge(g, u, v), us \ {u}, v)

\* the two dummy nodes
DummyNodes ==
    [nodes |-> {SINK, SOURCE},
     time |-> [u \in {SINK, SOURCE} |-> 0],
     succ |-> [u \in BuildNodes |-> <<>>]]

RECURSIVE BuildTasks(_, _, _)
BuildTasks(g, tl, i) ==
    IF i > Len(tl) THEN g
    ELSE LET task == tl[i]
             g1 == nx_add_node(g, task.num, task.time)
             g2 == IF task.preds = {}
                   THEN nx_add_edge(g1, SOURCE, task.num)
                   ELSE nx_add_edges_to(g1, task.preds, task.num)
         IN BuildTasks(g2, tl, i + 1)

\* nx.topological_sort raises NetworkXUnfeasible on a graph with a cycle
HasCycle(g) ==
    \E u \in g.nodes : \E v \in Range(g.succ[u]) : u \in dfs_preorder_nodes(g.succ, v)

BuildSinkEdges(g) ==
    [nodes |-> g.nodes \cup {SINK},
     time |-> g.time,
     succ |-> [u \in DOMAIN g.succ |->
                  IF u \in g.nodes /\ u # SINK /\ g.succ[u] = <<>>
                  THEN <<SINK>> ELSE g.succ[u]]]

\* the weight loop running over the task numbers instead of 1..len
TaskNumbers(tl) == {tl[i].num : i \in 1..Len(tl)}

\* for i in range(1, len(task_list) + 1)
WeighedNodes(tl) == 1..Len(tl)

\* the visited nodes that are not in the graph
NotInGraph(g, tl) == {i \in WeighedNodes(tl) : i \notin g.nodes}

\* the visited nodes from which a node without 'time' is reached
ReachesUntimed(g, tl) ==
    {i \in WeighedNodes(tl) \cap g.nodes :
        \E v \in dfs_preorder_nodes(g.succ, i) : v \notin DOMAIN g.time}

BuildTotalWeights(g, tl) ==
    [nodes |-> g.nodes,
     time |-> g.time,
     succ |-> g.succ,
     total_weight |->
        [u \in {SOURCE} \cup WeighedNodes(tl) |->
            IF u = SOURCE THEN 0
            ELSE SumSet(dfs_preorder_nodes(g.succ, u), g.time)]]

\* {task[0]: task[2] for task in task_list}: a later task of the same number
\* replaces the earlier one
BuildInputDict(tl) ==
    [k \in {tl[i].num : i \in 1..Len(tl)} |->
        LET last == CHOOSE i \in 1..Len(tl) :
                        /\ tl[i].num = k
                        /\ \A j \in 1..Len(tl) : tl[j].num = k => j <= i
        IN tl[last].time]

BuildInit ==
    /\ \E tl \in BuildTaskLists : line = [task_list |-> tl]
    /\ graph = DummyNodes
    /\ pc = "draw_graph"
    /\ cycle_time = 0
    /\ method = "lcr"
    /\ station_list = <<>> /\ current_station = <<>>
    /\ parent1_seq = <<>> /\ parent2_seq = <<>>
    /\ child1_seq = <<>> /\ child2_seq = <<>>
    /\ selected_region = {}
    /\ local_search = "heuristic" /\ size = 0
    /\ population = <<>> /\ new_population = <<>> /\ best_solutions = <<>>
    /\ gen = 0 /\ ret = <<>>
    /\ GAIdle
    /\ UIdle
    /\ ComsoalIdle /\ LocalIdle

\* _draw_graph: the nodes and edges of every task
BuildAddTasks ==
    /\ pc = "draw_graph"
    /\ graph' = BuildTasks(graph, line.task_list, 1)
    /\ pc' = "sink_edges"
    /\ UNCHANGED <<line, cycle_time, method, station_list, current_station, seqVars,
                   gaVars, cfgVars, localVars, comsoalVars, rngVars, uVars>>

\* _draw_graph: topological sort, then the edges to the dummy end node
BuildAddSinkEdges ==
    /\ pc = "sink_edges"
    /\ IF HasCycle(graph)
       THEN pc' = "NetworkXUnfeasible" /\ graph' = graph
       ELSE pc' = "total_weight" /\ graph' = BuildSinkEdges(graph)
    /\ UNCHANGED <<line, cycle_time, method, station_list, current_station, seqVars,
                   gaVars, cfgVars, localVars, comsoalVars, rngVars, uVars>>

\* _draw_graph: the total weights.  The first visited node that is missing or
\* reaches a node without 'time' ends the construction: a missing source is
\* a KeyError or a NetworkXError depending on the networkx release.
BuildWeigh ==
    /\ pc = "total_weight"
    /\ LET failing == NotInGraph(graph, line.task_list)
                        \cup ReachesUntimed(graph, line.task_list)
       IN IF failing = {}
          THEN /\ graph' = BuildTotalWeights(graph, line.task_list)
               /\ pc' = "input_dict"
          ELSE /\ graph' = graph
               /\ LET i == CHOOSE x \in failing : \A y \in failing : x <= y
                  IN IF i \in NotInGraph(graph, line.task_list)
                     THEN pc' \in {"KeyError", "NetworkXError"}
                     ELSE pc' = "KeyError"
    /\ UNCHANGED <<line, cycle_time, method, station_list, current_station, seqVars,
                   gaVars, cfgVars, localVars, comsoalVars, rngVars, uVars>>

\* __init__: self.graph and self.input_dictionary are set
BuildFinish ==
    /\ pc = "input_dict"
    /\ line' = [task_list |-> line.task_list,
                graph |-> graph,
                input_dictionary |-> BuildInputDict(line.task_list)]
    /\ pc' = "constructed"
    /\ UNCHANGED <<graph, cycle_time, method, station_list, current_station, seqVars,
                   gaVars, cfgVars, localVars, comsoalVars, rngVars, uVars>>

BuildNext == BuildAddTasks \/ BuildAddSinkEdges \/ BuildWeigh \/ BuildFinish

BuildSpec == BuildInit /\ [][BuildNext]_vars

\* ------------------------------------------------- properties of a Solution
NumTasks == Len(line.task_list)

Durations == line.input_dictionary

\* every task duration is within the cycle time
AllTasksFit == \A t \in 1..NumTasks : Durations[t] <= cycle_time

\* every task id exactly once, no virtual node
IsComplete(stations) ==
    LET flat == Flatten(stations)
    IN /\ Len(flat) = NumTasks
       /\ Range(flat) = 1..NumTasks

WithinCapacity(stations) ==
    \A i \in 1..Len(stations) : get_station_time(stations[i], Durations) <= cycle_time

\* precedence edges of the canonical graph between real tasks
PrecedenceEdges == PrecedenceEdgesOf(line)

IsTopological(seq) == IsTopologicalIn(line, seq)

IsPermutation(seq) == Len(seq) = NumTasks /\ Range(seq) = 1..NumTasks

StationOf(stations, t) == CHOOSE i \in 1..Len(stations) : Contains(stations[i], t)

RespectsPrecedence(stations) ==
    /\ \A e \in PrecedenceEdges : StationOf(stations, e[1]) <= StationOf(stations, e[2])
    /\ IsTopological(Flatten(stations))

\* C1: with every duration <= cycle_time, the station list heuristic_method
\* returns ('lcr' or 'hb') holds every task id exactly once and neither
\* virtual node.
C1_HeuristicComplete ==
    (pc = "returned" /\ AllTasksFit) => IsComplete(station_list)

C1_Witness ==
    /\ pc = "returned" /\ AllTasksFit
    /\ NumTasks = MaxTasks /\ Len(station_list) >= 2
    /\ method = "hb"

\* C2: with every duration <= cycle_time, every station heuristic_method
\* returns has summed duration <= cycle_time.
C2_HeuristicCapacity ==
    (pc = "returned" /\ AllTasksFit) => WithinCapacity(station_list)

C2_Witness ==
    /\ pc = "returned" /\ AllTasksFit
    /\ \E i \in 1..Len(station_list) :
          /\ Len(station_list[i]) >= 2
          /\ get_station_time(station_list[i], Durations) = cycle_time
    /\ Len(station_list) >= 2

\* C3: in the returned station list a predecessor's station index is <= its
\* successor's, and the flattened list is a topological order of the graph.
C3_HeuristicPrecedence ==
    pc = "returned" => RespectsPrecedence(station_list)

C3_Witness ==
    /\ pc = "returned"
    /\ Cardinality(PrecedenceEdges) >= 3
    /\ \E t \in 1..NumTasks : Cardinality(predecessors(line.graph.succ, t)) >= 2
    /\ Len(station_list) >= 2

\* C4: for the documented example with cycle time 6, LCR assigns task 1 first
\* and returns exactly [[1, 3], [2], [4]]: 3 stations, all 4 tasks, none over 6.
IsExampleRun ==
    line.task_list = ExampleTasks /\ cycle_time = ExampleCycle /\ method = "lcr"

C4_ExampleLCR ==
    IsExampleRun =>
        /\ LET assigned == Flatten(station_list) \o
                            (IF pc = "returned" THEN <<>> ELSE current_station)
           IN assigned # <<>> => assigned[1] = 1
        /\ pc = "returned" =>
              /\ station_list = << <<1, 3>>, <<2>>, <<4>> >>
              /\ IsComplete(station_list)
              /\ WithinCapacity(station_list)

C4_Witness == IsExampleRun /\ pc = "returned" /\ Len(station_list) = 3

\* C5: region_based_mutation applied to a valid topological sequence returns
\* a valid topological sequence, whatever region, gene and position it draws.
C5_MutationRegionSafe ==
    pc = "mutated" => IsTopological(child1_seq)

\* the two articulation points a region lies between (none for the region
\* made of all tasks)
RegionBoundary(region) ==
    LET aps == find_articulation_points(line.graph.succ)
    IN IF Len(aps) < 2 THEN {}
       ELSE UNION {{aps[i], aps[i + 1]} :
                i \in {j \in 1..(Len(aps) - 1) :
                         RegionBetween(line.graph.succ, aps[j], aps[j + 1]) = region}}

KeepsPositions(parent, child, region) ==
    \A k \in 1..Len(parent) :
        (parent[k] \notin region \/ parent[k] \in RegionBoundary(region))
            => child[k] = parent[k]

\* C6: both children of precedence_preserving_crossover over two valid
\* topological sequences are permutations of all task ids in valid
\* topological order, and genes outside the chosen region and the region's
\* two boundary genes keep their positions.
C6_CrossoverRegionSafe ==
    pc = "crossed" =>
        /\ IsPermutation(child1_seq) /\ IsPermutation(child2_seq)
        /\ IsTopological(child1_seq) /\ IsTopological(child2_seq)
        /\ KeepsPositions(parent1_seq, child1_seq, selected_region)
        /\ KeepsPositions(parent2_seq, child2_seq, selected_region)

C6_Witness ==
    /\ pc = "crossed"
    /\ RegionBoundary(selected_region) # {}
    /\ selected_region # 1..NumTasks
    /\ child1_seq # parent1_seq

\* C7: every sequence genetic_algorithms produces or consumes (the packed
\* initial sequences, the parents, the children after crossover and mutation)
\* is a topological order, and every returned Solution keeps each predecessor
\* in a station no later than its successor.
C7_GATopological ==
    /\ \A i \in 1..Len(population) : IsTopological(Flatten(population[i]))
    /\ \A i \in 1..Len(new_population) : IsTopological(Flatten(new_population[i]))
    /\ \A i \in 1..Len(best_solutions) : IsTopological(Flatten(best_solutions[i]))
    /\ pc = "ga_returned" => \A i \in 1..Len(ret) : RespectsPrecedence(ret[i])

\* C8: with every duration <= cycle_time, every Solution genetic_algorithms
\* returns holds every task id exactly once and no virtual node, whatever the
\* crossover and mutation draws and the local_search mode.
C8_GAComplete ==
    (pc = "ga_returned" /\ AllTasksFit) => \A i \in 1..Len(ret) : IsComplete(ret[i])

C8_Witness ==
    /\ pc = "ga_returned" /\ AllTasksFit
    /\ NumTasks = MaxGATasks
    /\ local_search = "genetics"
    /\ ret # <<>> /\ Len(ret[1]) >= 2
    /\ ret[1] \in Range(new_population)
    /\ new_population[1] # new_population[2]

\* C9: with every duration <= cycle_time, every station of every Solution
\* genetic_algorithms returns has summed duration <= cycle_time, after packing
\* and after the optional local search.
C9_GACapacity ==
    (pc = "ga_returned" /\ AllTasksFit) => \A i \in 1..Len(ret) : WithinCapacity(ret[i])

C9_Witness ==
    /\ pc = "ga_returned" /\ AllTasksFit
    /\ local_search = "genetics"
    /\ ret # <<>> /\ Len(ret[1]) >= 2
    /\ \E i \in 1..Len(ret[1]) :
          /\ Len(ret[1][i]) >= 2
          /\ get_station_time(ret[1][i], Durations) = cycle_time

\* C10: two calls of genetic_algorithms with the same line, cycle time,
\* configuration and non-None seed return the same Solution list, whatever
\* the two generators held before each call.
C10_SeededReproducible ==
    (pc = "ga_returned" /\ call = 2 /\ seed # NoSeed) => ret = first_call.ret

C10_Witness ==
    /\ pc = "ga_returned" /\ call = 2 /\ seed # NoSeed
    /\ first_call.ambient # ambient
    /\ local_search = "genetics"
    /\ ret # <<>> /\ Len(ret[1]) >= 2

\* the line efficiency of a station list of the line under balance
EfficiencyOf(stations) ==
    calculate_line_efficiency(stations, line.input_dictionary, cycle_time)

\* C11: for generation >= 1 and out >= 1, genetic_algorithms returns between
\* 1 and `out` Solutions, pairwise distinct, each of them the best recorded
\* for some generation, in order of non-increasing line efficiency.
C11_GAOutput ==
    pc = "ga_returned" =>
        /\ 1 <= Len(ret) /\ Len(ret) <= out
        /\ \A i, j \in 1..Len(ret) : i # j => ret[i] # ret[j]
        /\ \A i \in 1..Len(ret) : ret[i] \in Range(best_solutions)
        /\ \A i \in 1..(Len(ret) - 1) :
              EffGE(EfficiencyOf(ret[i]), EfficiencyOf(ret[i + 1]))

C11_Witness ==
    /\ pc = "ga_returned"
    /\ Len(best_solutions) = MaxRecorded
    /\ best_solutions[1] = best_solutions[2]
    /\ Len(ret) = 2
    /\ ret[1] = best_solutions[MaxRecorded]
    /\ EffGT(EfficiencyOf(ret[1]), EfficiencyOf(ret[2]))

\* the tasks assigned before the k-th one
AssignedBefore(flat, k) == {flat[i] : i \in 1..(k - 1)}

\* on the front frontier at its selection: no unretired predecessor
OnFront(flat, k) ==
    \A e \in PrecedenceEdges : e[2] = flat[k] => e[1] \in AssignedBefore(flat, k)

\* on the back frontier at its selection: no unretired successor
OnBack(flat, k) ==
    \A e \in PrecedenceEdges : e[1] = flat[k] => e[2] \in AssignedBefore(flat, k)

\* a U-shaped run has returned a station list
UTypeReturned == pc = "returned" /\ (method = "comsoal" => best_efficiency # MinusOne)

\* C12: with every duration <= cycle_time, u_type_balance with method 'lcr'
\* ends in no error and returns a non-empty station list that holds every
\* task id exactly once and no virtual node.
C12_UTypeLcrComplete ==
    (method = "lcr" /\ AllTasksFit) =>
        /\ pc \notin {"KeyError", "IndexError"}
        /\ pc = "returned" => ret[1] # <<>> /\ IsComplete(ret[1])

\* C13: u_type_balance (any method) returns one side label per input task,
\* in assignment order: 'F-B' when the task was on both frontiers at its
\* selection, 'B' when only on the back one, 'F' when only on the front one.
C13_UTypeSides ==
    pc = "returned" =>
        LET flat == Flatten(ret[1])
            sides == ret[2]
        IN /\ Len(sides) = NumTasks
           /\ Len(flat) = Len(sides)
           /\ \A k \in 1..Len(sides) :
                 /\ sides[k] = "F-B" <=> (OnFront(flat, k) /\ OnBack(flat, k))
                 /\ sides[k] = "B" <=> (~OnFront(flat, k) /\ OnBack(flat, k))
                 /\ sides[k] = "F" <=> (OnFront(flat, k) /\ ~OnBack(flat, k))

\* C14: with every duration <= cycle_time and iteration >= 1, the station
\* list u_type_balance returns with method 'comsoal' holds every task id
\* exactly once and no virtual node, and the side list has one entry per task.
C14_UTypeComsoalComplete ==
    (pc = "returned" /\ method = "comsoal" /\ AllTasksFit) =>
        /\ IsComplete(ret[1])
        /\ Len(ret[2]) = NumTasks

\* C15: with every duration <= cycle_time, every station of the Solution
\* u_type_balance returns ('lcr', 'hb', 'comsoal') has summed duration
\* <= cycle_time.
C15_UTypeCapacity ==
    (UTypeReturned /\ AllTasksFit) => WithinCapacity(ret[1])

C15_Witness ==
    /\ UTypeReturned /\ AllTasksFit
    /\ method = "comsoal"
    /\ NumTasks = MaxUTasks
    /\ \E i \in 1..Len(ret[1]) :
          /\ Len(ret[1][i]) >= 2
          /\ get_station_time(ret[1][i], Durations) = cycle_time
    /\ Len(ret[1]) >= 2

\* A + B * sqrt(s) > 0
Positive(A, B, s) ==
    IF B >= 0
    THEN \/ A > 0
         \/ A = 0 /\ B > 0 /\ s > 0
         \/ A < 0 /\ B * B * s > A * A
    ELSE A > 0 /\ A * A > B * B * s

\* the value a + b * sqrt(s) / d (d > 0) against h / k
Above(v, h, k) == Positive((k * v.a - h) * v.d, k * v.b, v.s)

Below(v, h, k) == Positive((h - k * v.a) * v.d, 0 - k * v.b, v.s)

\* the time of the i-th station of the list under measure
StationTime(i) == get_station_time(station_list[i], Durations)

LargestStationTime ==
    CHOOSE m \in {StationTime(i) : i \in 1..Len(station_list)} :
        \A i \in 1..Len(station_list) : StationTime(i) <= m

\* sum over the first k stations of (max_station_time - station_time)^2
RECURSIVE DeviationSquares(_)
DeviationSquares(k) ==
    IF k = 0 THEN 0
    ELSE DeviationSquares(k - 1)
           + (LargestStationTime - StationTime(k)) * (LargestStationTime - StationTime(k))

\* the divisor num_stations * cycle_time, the largest station time standing
\* in for a zero cycle_time
EfficiencyDivisor ==
    Len(station_list) * (IF cycle_time = 0 THEN LargestStationTime ELSE cycle_time)

IsExampleCall ==
    /\ line = Line(ExampleTasks)
    /\ station_list = ExampleStations
    /\ cycle_time = ExampleCycle

C17_MetricRange ==
    (cycle_time > 0 /\ WithinCapacity(station_list)) =>
        /\ pc = "line_efficiency" =>
              /\ ~Below(ret, 0, 1) /\ ~Above(ret, 100, 1)
              /\ ret.s <= ret.d * ret.d
        /\ pc = "smooth_index" => ~Below(ret, 0, 1)

C17_Witness ==
    /\ pc = "line_efficiency"
    /\ cycle_time > 0 /\ WithinCapacity(station_list)
    /\ Len(station_list) >= 3
    /\ StationTime(1) = cycle_time
    /\ Above(ret, 0, 1) /\ Below(ret, 100, 1)

\* C18: when some task's duration exceeds cycle_time, heuristic_method never
\* returns a station list holding a station whose time exceeds cycle_time or
\* an empty station (the call is to end in an error before any station is
\* built).
C18_InfeasibleCycleRejected ==
    (pc = "returned" /\ ~AllTasksFit) =>
        /\ WithinCapacity(station_list)
        /\ \A i \in 1..Len(station_list) : station_list[i] # <<>>

HasDuplicateIds ==
    \E i, j \in 1..Len(line.task_list) :
        i # j /\ line.task_list[i].num = line.task_list[j].num

C20_ComsoalSequences ==
    /\ pc # "IndexError"
    /\ \A seq \in RandomSequences(line.graph.succ) :
          IsPermutation(seq) /\ IsTopological(seq)
    /\ Range(task_sequence) \subseteq 1..NumTasks
    /\ \A i, j \in 1..Len(task_sequence) : task_sequence[i] = task_sequence[j] => i = j
    /\ IsTopological(task_sequence)
    /\ pc = "comsoal_allocate" => IsPermutation(task_sequence)
    /\ (pc = "returned" /\ local_search = "heuristic") =>
          /\ ret # <<>>
          /\ \A i \in 1..Len(ret) : IsComplete(ret[i]) /\ RespectsPrecedence(ret[i])

C20_Witness ==
    /\ pc = "returned" /\ local_search = "heuristic"
    /\ NumTasks = MaxGATasks
    /\ PrecedenceEdges # {}
    /\ Len(ret) >= 2
    /\ Flatten(ret[1]) # Flatten(ret[2])

\* the tasks a U-shaped run has assigned so far
UAssigned == Range(Flatten(station_list)) \cup Range(current_station)

\* the unretired real tasks whose successors are all retired
BackFrontier ==
    {t \in (1..NumTasks) \ UAssigned :
        \A e \in PrecedenceEdges : e[1] = t => e[2] \in UAssigned}

\* C25: at every selection step of u_type_balance and u_type_comsoal the back
\* frontier the code computes is exactly the set of unretired real tasks with
\* no unretired successor; it holds every task without successor at the first
\* step and never the start node.
C25_UTypeBackFrontier ==
    pc \in {"u_type", "u_comsoal"} =>
        /\ Range(back_feasible_tasks(graph)) = BackFrontier
        /\ SOURCE \notin Range(back_feasible_tasks(graph))

\* the weight a candidate of u_type_balance is ranked by
CandidateWeight(t) ==
    IF Contains(front_feasible_tasks(graph), t) THEN line.graph.total_weight[t]
    ELSE reversed_total_weight(line)[t]

\* C26: in u_type_balance ('lcr'/'hb') the lowest-ranked candidate heads the
\* scanned list at the very first selection step, and at every later
\* selection step the candidates are scanned in descending weight order.
C26_UTypeFirstStepReversal ==
    (pc = "u_type"
       /\ HasWeights(line, back_feasible_tasks(graph), front_feasible_tasks(graph))) =>
        LET cl == UTypeCandidates
        IN IF UAssigned = {}
           THEN \A i \in 1..Len(cl) : CandidateWeight(cl[1]) <= CandidateWeight(cl[i])
           ELSE \A i, j \in 1..Len(cl) :
                   i < j => CandidateWeight(cl[i]) >= CandidateWeight(cl[j])

\* the task list under construction is a valid one: unique positive task
\* numbers, predecessors that are tasks of the list, no cycle
BuildIds == {line.task_list[i].num : i \in 1..Len(line.task_list)}

IsValidTaskList ==
    /\ ~HasDuplicateIds
    /\ \A i \in 1..Len(line.task_list) : line.task_list[i].preds \subseteq BuildIds
    /\ ~HasCycle(BuildTasks(DummyNodes, line.task_list, 1))

\* duration of the task numbered t
BuildDuration(t) ==
    LET i == CHOOSE j \in 1..Len(line.task_list) : line.task_list[j].num = t
    IN line.task_list[i].time

\* the tasks reached from t along precedence edges of the task list, t included
RECURSIVE BuildDownstream(_)
BuildDownstream(S) ==
    LET more == {line.task_list[i].num : i \in {j \in 1..Len(line.task_list) :
                                                   line.task_list[j].preds \cap S # {}}}
    IN IF more \subseteq S THEN S ELSE BuildDownstream(S \cup more)

\* C29: constructing a Line from an acyclic task list whose task numbers are
\* unique positive integers, contiguous or not, does not fail, and every task
\* node then carries total_weight = its duration plus the durations of its
\* distinct descendants.
C29_ForwardWeights ==
    IsValidTaskList =>
        /\ pc \notin {"KeyError", "NetworkXError", "NetworkXUnfeasible"}
        /\ pc = "constructed" =>
              /\ BuildIds \subseteq DOMAIN line.graph.total_weight
              /\ \A t \in BuildIds :
                    line.graph.total_weight[t]
                       = SumSet(BuildDownstream({t}), [u \in BuildIds |-> BuildDuration(u)])

\* the tasks the running constructive loop has retired, in order
DriverAssigned ==
    IF method = "comsoal" THEN task_sequence
    ELSE IF pc = "returned" THEN Flatten(station_list)
    ELSE Flatten(station_list) \o current_station

\* the constructive loop is about to run one more iteration
DriverLooping == pc \in {"heuristic", "comsoal_select"}

\* the constructive loop has just ended
DriverEnded ==
    \/ method \in {"lcr", "hb"} /\ pc = "returned"
    \/ pc = "comsoal_allocate"

DriverProgress ==
    /\ pc # "IndexError"
    /\ (pc = "heuristic") => candidate_list(line, graph, method) # <<>>
    /\ (pc = "comsoal_select") => remove_non_feasibles(graph[SOURCE], graph) # <<>>
    /\ DriverLooping => Len(DriverAssigned) < NumTasks
    /\ (DriverLooping \/ DriverEnded) =>
          (number_of_edges(graph) = 1 <=> graph[SOURCE] = <<SINK>>)
    /\ DriverEnded =>
          /\ Len(DriverAssigned) = NumTasks
          /\ number_of_edges(graph) = 1
          /\ graph[SOURCE] = <<SINK>>

DriverStep ==
    DriverLooping =>
        \E t \in (1..NumTasks) \ Range(DriverAssigned) :
            DriverAssigned' = Append(DriverAssigned, t)

\* C22: in heuristic_method and in every restart of comsoal_algorithm the
\* candidate list is never empty when the loop runs, every iteration retires
\* exactly one task not retired before, and the loop ends after exactly n
\* iterations, when the only edge left in the working graph is SOURCE->SINK;
\* number_of_edges() == 1 holds exactly when SOURCE's only successor is SINK.
C22_DriversProgress == []DriverProgress /\ [][DriverStep]_vars

C22_Witness ==
    /\ pc = "comsoal_allocate" /\ restart = 1
    /\ NumTasks = MaxGATasks
    /\ PrecedenceEdges # {}

\* the rank of a task under the running method: its forward weight ('lcr')
\* or the number of nodes reached from it ('hb')
Rank(t) ==
    IF method = "lcr" THEN line.graph.total_weight[t]
    ELSE Cardinality(dfs_preorder_nodes(line.graph.succ, t))

\* the feasibility frontier in its enumeration order: the successors of
\* SOURCE all of whose predecessors are retired
Frontier ==
    SelectSeq(graph[SOURCE],
              LAMBDA t : t # SINK /\ \A e \in PrecedenceEdges :
                                        e[2] = t => e[1] \in Range(DriverAssigned))

FrontierPosition(t) == CHOOSE i \in 1..Len(Frontier) : Frontier[i] = t

\* t is ranked before u: higher rank, or the same rank and enumerated earlier
RankedBefore(t, u) ==
    \/ Rank(t) > Rank(u)
    \/ Rank(t) = Rank(u) /\ FrontierPosition(t) <= FrontierPosition(u)

FrontierFitting ==
    {t \in Range(Frontier) :
        get_station_time(current_station, Durations) + Durations[t] <= cycle_time}

FirstFitStep ==
    pc = "heuristic" =>
        \E t \in Range(Frontier) :
            /\ DriverAssigned' = Append(DriverAssigned, t)
            /\ IF FrontierFitting # {}
               THEN /\ t \in FrontierFitting
                    /\ \A u \in FrontierFitting : RankedBefore(t, u)
                    /\ current_station' = Append(current_station, t)
                    /\ station_list' \in {station_list,
                                          Append(station_list, current_station')}
               ELSE /\ \A u \in Range(Frontier) : RankedBefore(t, u)
                    /\ current_station' = <<t>>
                    /\ LET closed == IF current_station = <<>> THEN station_list
                                     ELSE Append(station_list, current_station)
                       IN station_list' \in {closed, Append(closed, <<t>>)}

\* C23: at every step of heuristic_method the task appended to the open
\* station is the highest-ranked task of the feasibility frontier that fits
\* the remaining capacity, ties in frontier enumeration order; a station is
\* closed only at a step where no frontier task fits, and the new station is
\* then seeded with the top-ranked frontier task.
C23_FirstFitInRankOrder == [][FirstFitStep]_vars

C23_Witness ==
    /\ pc = "heuristic" /\ AllTasksFit
    /\ station_list # <<>> /\ current_station # <<>>
    /\ \E t \in FrontierFitting : \E u \in Range(Frontier) \ FrontierFitting :
          Rank(u) > Rank(t)

\* C21: the cycle time comsoal_algorithm derives when called with
\* cycle_time=None is at least the largest task duration, and every station
\* of every station list it returns has summed duration <= that cycle time.
C21_AutoCycleCapacity ==
    pc # "comsoal_cycle" =>
        /\ AllTasksFit
        /\ pc = "returned" => \A i \in 1..Len(ret) : WithinCapacity(ret[i])

\* C24: for a station list over tasks whose durations are all <= cycle_time
\* and any drawn index k, every station at index >= k of the list
\* mutation_local returns, the stations created during the repair included,
\* has summed duration <= cycle_time.
C24_RepairedFromK ==
    (pc = "mutated" /\ AllTasksFit) =>
        \A i \in drawn_k..Len(ret) : get_station_time(ret[i], Durations) <= cycle_time

\* the station lists local_search_procedure holds or has returned
LocalProduced ==
    IF pc = "mutated" THEN {ret}
    ELSE IF pc = "returned" THEN Range(ret)
    ELSE IF pc = "local_generation" THEN Range(population) \cup Range(best_solutions)
    ELSE {}

\* C30: the stations mutation_local returns, concatenated in order, are the
\* input stations concatenated in order; so every neighbour produced by
\* local_search_procedure ('local' or 'genetics') holds the tasks of the
\* initial solution and respects the precedence relation whenever the initial
\* solution does.
C30_TaskOrderPreserved ==
    \A x \in LocalProduced :
        /\ Flatten(x) = Flatten(station_list)
        /\ RespectsPrecedence(station_list) => RespectsPrecedence(x)

C30_Witness ==
    /\ pc = "returned" /\ local_search = "genetics"
    /\ PrecedenceEdges # {} /\ RespectsPrecedence(station_list)
    /\ \E i \in 1..Len(ret) : ret[i] # station_list /\ Len(ret[i]) > Len(station_list)

\* the line efficiency genetic_algorithms scores an individual with
Score(x) == calculate_line_efficiency(x, line.input_dictionary, cycle_time)

\* kept is `size` members of all_solutions, none scoring below a member
\* left out
IsTopOf(kept, all_solutions) ==
    /\ Len(kept) = size
    /\ \E idx \in [1..size -> 1..Len(all_solutions)] :
          /\ \A i, j \in 1..size : idx[i] = idx[j] => i = j
          /\ \A i \in 1..size : kept[i] = all_solutions[idx[i]]
          /\ \A j \in (1..Len(all_solutions)) \ Range(idx) :
                \A i \in 1..size : EffGE(Score(kept[i]), Score(all_solutions[j]))

\* a step that completes a generation
ElitismStep ==
    gen' = gen + 1 =>
        /\ IsTopOf(population', population \o new_population')
        /\ Len(best_solutions') = gen'
        /\ \A x \in Range(population \o new_population') :
              EffGE(Score(best_solutions'[gen']), Score(x))
        /\ gen >= 1 => EffGE(Score(best_solutions'[gen']), Score(best_solutions[gen]))

\* C28: after every generation of genetic_algorithms the population is
\* exactly `size` individuals, the `size` highest-efficiency members of the
\* old population plus the generated children, and the efficiency of the
\* best individual recorded per generation never decreases from one
\* generation to the next.
C28_Elitism == [][ElitismStep]_vars

C28_Witness ==
    /\ pc = "ga_evolve" /\ gen = 2
    /\ EffGT(Score(best_solutions[2]), Score(best_solutions[1]))
    /\ \E i \in 1..Len(new_population) : Contains(population, new_population[i])

\* C27: over any sequence of calls to heuristic_method, comsoal_algorithm,
\* genetic_algorithms, u_type_balance and local_search_procedure on a Line,
\* line.graph, line.task_list and line.input_dictionary stay as they are and
\* so does the station list passed to the local search: every task is retired,
\* every station moved, on the call's own copy.
C27_CanonicalUntouched == [][line' = line /\ station_list' = station_list]_vars

C27_Witness ==
    /\ pc = "idle" /\ call > MaxCalls
    /\ graph.ref # LineGraphRef /\ graph.obj.succ # line.graph.succ
    /\ "reversed_total_weight" \in DOMAIN graph.obj
    /\ ret.ref # StationListRef /\ ret.obj # station_list

====
